---------------------------- MODULE Spec2Model ----------------------------
(***************************************************************************)
(* Model of the PDF outline extractor: pdf_parser.PDFParser,               *)
(* heading_extractor.HeadingExtractor, utils.validate_output /             *)
(* save_json_output and main.process_pdf.                                  *)
(*                                                                         *)
(* A text is a sequence of characters, each character a one-character      *)
(* string.  The alphabet is ASCII letters, digits, punctuation and the     *)
(* whitespace characters " ", "\t", "\n"; on it Python's str methods and   *)
(* the re module behave as the operators below compute them.  Font sizes   *)
(* and coordinates are integers; the average font size is kept as the      *)
(* exact fraction sum/count, and the heading score as an IEEE-754 double.  *)
(***************************************************************************)
EXTENDS Integers, Sequences, FiniteSets, TLC

(***************************************************************************)
(* Characters and Python str methods                                       *)
(***************************************************************************)
UpperLetters == <<"A", "B", "C", "D", "E", "F", "G", "H", "I", "J", "K", "L", "M",
                  "N", "O", "P", "Q", "R", "S", "T", "U", "V", "W", "X", "Y", "Z">>

LowerLetters == <<"a", "b", "c", "d", "e", "f", "g", "h", "i", "j", "k", "l", "m",
                  "n", "o", "p", "q", "r", "s", "t", "u", "v", "w", "x", "y", "z">>

Upper == {UpperLetters[i] : i \in DOMAIN UpperLetters}

Lower == {LowerLetters[i] : i \in DOMAIN LowerLetters}

Digit == {"0", "1", "2", "3", "4", "5", "6", "7", "8", "9"}

\* the characters str.strip(), str.split() and the regex class \s treat as space
Whitespace == {" ", "\t", "\n"}

ToLowerChar(c) ==
    IF c \in Upper
    THEN LowerLetters[CHOOSE i \in DOMAIN UpperLetters : UpperLetters[i] = c]
    ELSE c

ToUpperChar(c) ==
    IF c \in Lower
    THEN UpperLetters[CHOOSE i \in DOMAIN LowerLetters : LowerLetters[i] = c]
    ELSE c

\* str.lower()
lower(t) == [i \in 1..Len(t) |-> ToLowerChar(t[i])]

\* number of characters of t from position i on that lie in cls (a maximal run)
RunLength(cls, t, i) ==
    LET stop == CHOOSE j \in i..(Len(t) + 1) :
                    /\ (j = Len(t) + 1 \/ t[j] \notin cls)
                    /\ \A k \in i..(j - 1) : t[k] \in cls
    IN  stop - i

\* str.strip()
strip(t) ==
    LET lead  == RunLength(Whitespace, t, 1)
        last  == CHOOSE j \in 0..Len(t) :
                    /\ (j = 0 \/ t[j] \notin Whitespace)
                    /\ \A k \in (j + 1)..Len(t) : t[k] \in Whitespace
    IN  IF lead = Len(t) THEN <<>> ELSE SubSeq(t, lead + 1, last)

\* positions where a whitespace-separated word of t starts
WordStarts(t) ==
    {i \in 1..Len(t) : t[i] \notin Whitespace /\ (i = 1 \/ t[i - 1] \in Whitespace)}

\* number of characters of t from position i on that lie outside cls
RunLengthNot(cls, t, i) ==
    LET stop == CHOOSE j \in i..(Len(t) + 1) :
                    /\ (j = Len(t) + 1 \/ t[j] \in cls)
                    /\ \A k \in i..(j - 1) : t[k] \notin cls
    IN  stop - i

RECURSIVE WordsFrom(_, _)
WordsFrom(t, starts) ==
    IF starts = {} THEN <<>>
    ELSE LET i == CHOOSE s \in starts : \A o \in starts : s <= o
         IN  <<SubSeq(t, i, i + RunLengthNot(Whitespace, t, i) - 1)>>
             \o WordsFrom(t, starts \ {i})

\* str.split() without argument
split(t) == WordsFrom(t, WordStarts(t))

RECURSIVE join(_, _)
\* sep.join(words)
join(sep, words) ==
    IF words = <<>> THEN <<>>
    ELSE IF Len(words) = 1 THEN words[1]
    ELSE words[1] \o sep \o join(sep, Tail(words))

\* str.startswith(prefix)
startswith(t, prefix) ==
    Len(t) >= Len(prefix) /\ SubSeq(t, 1, Len(prefix)) = prefix

\* str.endswith(c) for a one-character suffix
endswith(t, c) == Len(t) >= 1 /\ t[Len(t)] = c

\* sub in t
contains(t, sub) ==
    \E i \in 1..(Len(t) - Len(sub) + 1) : SubSeq(t, i, i + Len(sub) - 1) = sub

\* str.isupper(): at least one cased character and no lowercase one
isupper(t) ==
    /\ \E i \in 1..Len(t) : t[i] \in Upper
    /\ \A i \in 1..Len(t) : t[i] \notin Lower

\* str.islower() of one character
islower_char(c) == c \in Lower

\* str.isdigit()
isdigit(t) == Len(t) >= 1 /\ \A i \in 1..Len(t) : t[i] \in Digit

(***************************************************************************)
(* Regular expressions as re.match applies them: the pattern is anchored   *)
(* at the start of the text, each item is a character class with a         *)
(* quantifier, and a match exists iff some choice of repetition counts     *)
(* (the backtracking search) consumes the pattern.                         *)
(***************************************************************************)
QMin(q) == CASE q = "1" -> 1 [] q = "?" -> 0 [] q = "+" -> 1
             [] q = "*" -> 0 [] q = "{2,}" -> 2

QMax(q, room) == IF q \in {"1", "?"} THEN IF room < 1 THEN room ELSE 1 ELSE room

One(cls) == <<[cls |-> cls, q |-> "1"]>>

Opt(cls) == <<[cls |-> cls, q |-> "?"]>>

Plus(cls) == <<[cls |-> cls, q |-> "+"]>>

Star(cls) == <<[cls |-> cls, q |-> "*"]>>

TwoOrMore(cls) == <<[cls |-> cls, q |-> "{2,}"]>>

\* the anchor $
EndAnchor == <<[cls |-> {}, q |-> "$"]>>

\* a literal word
Lit(w) == [k \in 1..Len(w) |-> [cls |-> {w[k]}, q |-> "1"]] \o <<>>

Dot == {"."}

\* re.IGNORECASE: a class also matches the other case of its letters
FoldCase(cls) ==
    cls \cup {LowerLetters[i] : i \in {j \in DOMAIN UpperLetters : UpperLetters[j] \in cls}}
        \cup {UpperLetters[i] : i \in {j \in DOMAIN LowerLetters : LowerLetters[j] \in cls}}

RECURSIVE IgnoreCase(_)
IgnoreCase(pat) ==
    IF pat = <<>> THEN <<>>
    ELSE <<[cls |-> FoldCase(pat[1].cls), q |-> pat[1].q]>> \o IgnoreCase(Tail(pat))

RECURSIVE re_match_from(_, _, _, _)
re_match_from(pat, p, t, i) ==
    IF p > Len(pat) THEN TRUE
    ELSE IF pat[p].q = "$"
    THEN /\ (i = Len(t) + 1 \/ (i = Len(t) /\ t[i] = "\n"))
         /\ re_match_from(pat, p + 1, t, i)
    ELSE LET run == RunLength(pat[p].cls, t, i)
         IN  \E n \in QMin(pat[p].q)..QMax(pat[p].q, run) :
                 re_match_from(pat, p + 1, t, i + n)

\* re.match(pattern, text)
re_match(pat, t) == re_match_from(pat, 1, t, 1)



(***************************************************************************)
(* Texts of the model                                                      *)
(***************************************************************************)
T_intro == <<"1", ".", " ", "I", "n", "t", "r", "o", "d", "u", "c", "t", "i", "o", "n">>

T_back == <<"1", ".", "1", " ", "B", "a", "c", "k", "g", "r", "o", "u", "n", "d">>

T_detail == <<"1", ".", "1", ".", "1", " ", "D", "e", "t", "a", "i", "l">>

T_method == <<"M", "E", "T", "H", "O", "D", "O", "L", "O", "G", "Y">>

T_draft == <<"D", "r", "a", "f", "t", " ", "P", "a", "p", "e", "r">>

T_author == <<"A", "u", "t", "h", "o", "r", " ", "N", "a", "m", "e">>

T_title_only == <<"T", "i", "t", "l", "e", ":">>

T_title_paper == <<"t", "i", "t", "l", "e", ":", " ", "p", "a", "p", "e", "r", ":", " ", "x">>

T_hello == <<"h", "e", "l", "l", "o", " ", "w", "o", "r", "l", "d">>

T_ab == <<"a", "b", ".">>

T_contact == <<"C", "o", "n", "t", "a", "c", "t", ":", " ", "a", "@", "b", ".", "o", "r", "g">>

T_page == <<"P", "a", "g", "e", " ", "3">>

T_num == <<"4", "2">>

T_x == <<"x">>

T_padded == <<" ", " ", "O", "v", "e", "r", "v", "i", "e", "w", " ", "\t">>

T_blank == <<" ", " ">>

\* '1.1 Background' as a span carries it, blanks around it
T_back_raw == <<" ", " ">> \o T_back \o <<" ", "\n">>

\* 201 letters and a full stop: longer than 200, not longer than 300
T_long_sentence == [i \in 1..201 |-> "x"] \o <<".">>

\* longer than 300
T_too_long == [i \in 1..301 |-> "x"] \o <<>>

\* 'Draft  \t Paper': a run of blanks and a tab inside the text
T_draft_spaced == <<"D", "r", "a", "f", "t", " ", " ", "\t", " ", "P", "a", "p", "e", "r">>

\* 'DOCUMENT:  plan'
T_document == <<"D", "O", "C", "U", "M", "E", "N", "T", ":", " ", " ", "p", "l", "a", "n">>

\* 'Copyright 2024'
T_copyright == <<"C", "o", "p", "y", "r", "i", "g", "h", "t", " ", "2", "0", "2", "4">>

\* 'www.a.org'
T_www == <<"w", "w", "w", ".", "a", ".", "o", "r", "g">>

\* '@home': the at sign in front
T_at_home == <<"@", "h", "o", "m", "e">>

\* '1. \uc18c\uac1c', the Korean heading of the multilingual test: its two
\* syllables are characters without case, outside every class above
T_korean == <<"1", ".", " ", "U+C18C", "U+AC1C">>

\* 'Aa Bb Cc d e': three of five words capitalised
T_three_of_five == <<"A", "a", " ", "B", "b", " ", "C", "c", " ", "d", " ", "e">>

\* 'Aa Bb c d': two of four
T_two_of_four == <<"A", "a", " ", "B", "b", " ", "c", " ", "d">>

\* 'A B C': capitals that are whole words
T_capitals == <<"A", " ", "B", " ", "C">>

(***************************************************************************)
(* HeadingExtractor.__init__: the pattern and keyword tables               *)
(***************************************************************************)
heading_patterns ==
    << Plus(Digit) \o Opt(Dot) \o Plus(Whitespace),
       Plus(Digit) \o One(Dot) \o Plus(Digit) \o Opt(Dot) \o Plus(Whitespace),
       Plus(Digit) \o One(Dot) \o Plus(Digit) \o One(Dot) \o Plus(Digit)
           \o Opt(Dot) \o Plus(Whitespace),
       One(Upper) \o TwoOrMore(Upper \cup Whitespace) \o EndAnchor,
       Plus({"I", "V", "X"}) \o Opt(Dot) \o Plus(Whitespace),
       One(Upper) \o Opt(Dot) \o Plus(Whitespace),
       One({"("}) \o One(Lower) \o One({")"}) \o Plus(Whitespace),
       Lit(<<"C", "h", "a", "p", "t", "e", "r">>) \o Plus(Whitespace) \o Plus(Digit),
       Lit(<<"S", "e", "c", "t", "i", "o", "n">>) \o Plus(Whitespace) \o Plus(Digit),
       Lit(<<"P", "a", "r", "t">>) \o Plus(Whitespace) \o Plus({"I", "V", "X"}) >>

heading_keywords ==
    << <<"i", "n", "t", "r", "o", "d", "u", "c", "t", "i", "o", "n">>,
       <<"c", "o", "n", "c", "l", "u", "s", "i", "o", "n">>,
       <<"a", "b", "s", "t", "r", "a", "c", "t">>,
       <<"s", "u", "m", "m", "a", "r", "y">>,
       <<"o", "v", "e", "r", "v", "i", "e", "w">>,
       <<"b", "a", "c", "k", "g", "r", "o", "u", "n", "d">>,
       <<"m", "e", "t", "h", "o", "d", "o", "l", "o", "g", "y">>,
       <<"r", "e", "s", "u", "l", "t", "s">>,
       <<"d", "i", "s", "c", "u", "s", "s", "i", "o", "n">>,
       <<"r", "e", "f", "e", "r", "e", "n", "c", "e", "s">>,
       <<"a", "c", "k", "n", "o", "w", "l", "e", "d", "g", "m", "e", "n", "t", "s">>,
       <<"a", "p", "p", "e", "n", "d", "i", "x">>,
       <<"c", "h", "a", "p", "t", "e", "r">>,
       <<"s", "e", "c", "t", "i", "o", "n">>,
       <<"p", "a", "r", "t">>,
       <<"t", "a", "b", "l", "e", " ", "o", "f", " ", "c", "o", "n", "t", "e", "n", "t", "s">>,
       <<"e", "x", "e", "c", "u", "t", "i", "v", "e", " ", "s", "u", "m", "m", "a", "r", "y">>,
       <<"l", "i", "t", "e", "r", "a", "t", "u", "r", "e", " ", "r", "e", "v", "i", "e", "w">> >>

\* the sentinel title
UntitledDocument ==
    <<"U", "n", "t", "i", "t", "l", "e", "d", " ", "D", "o", "c", "u", "m", "e", "n", "t">>

(***************************************************************************)
(* Pattern helpers of HeadingExtractor                                     *)
(***************************************************************************)
\* the patterns as re.match(pattern, text, re.IGNORECASE) reads them
heading_patterns_ignorecase ==
    << IgnoreCase(heading_patterns[1]), IgnoreCase(heading_patterns[2]),
       IgnoreCase(heading_patterns[3]), IgnoreCase(heading_patterns[4]),
       IgnoreCase(heading_patterns[5]), IgnoreCase(heading_patterns[6]),
       IgnoreCase(heading_patterns[7]), IgnoreCase(heading_patterns[8]),
       IgnoreCase(heading_patterns[9]), IgnoreCase(heading_patterns[10]) >>

_matches_heading_pattern(text) ==
    \E k \in DOMAIN heading_patterns_ignorecase :
        re_match(heading_patterns_ignorecase[k], text)

\* faulty variant of _has_numbering: the pattern lacks its trailing \s+, so a
\* two-level or three-level prefix counts as numbering as well
MutHasNumbering(text) ==
    re_match(Plus(Digit) \o Opt(Dot), text)

_has_numbering(text) ==
    re_match(Plus(Digit) \o Opt(Dot) \o Plus(Whitespace), text)

_contains_heading_keywords(text) ==
    LET text_lower == lower(text)
    IN  \E k \in DOMAIN heading_keywords : contains(text_lower, heading_keywords[k])

\* faulty variant of _is_title_case: more than 60% of the words are required
MutIsTitleCase(text) ==
    LET words == split(text)
        title_words ==
            Cardinality({k \in DOMAIN words :
                            words[k][1] \in Upper /\ Len(words[k]) > 1})
    IN  IF Len(words) < 2 THEN FALSE
        ELSE 5 * title_words > 3 * Len(words)

_is_title_case(text) ==
    LET words == split(text)
        title_words ==
            Cardinality({k \in DOMAIN words :
                            words[k][1] \in Upper /\ Len(words[k]) > 1})
    IN  IF Len(words) < 2 THEN FALSE
        \* title_words / len(words) >= 0.6: the quotient of two small integers
        \* is the double nearest to it, and 0.6 the double nearest to 3/5
        ELSE 5 * title_words >= 3 * Len(words)

header_footer_patterns ==
    << Plus(Digit) \o EndAnchor,
       Lit(<<"p", "a", "g", "e">>) \o Plus(Whitespace) \o Plus(Digit),
       Plus(Digit) \o Star(Whitespace) \o EndAnchor,
       Lit(<<"c", "o", "p", "y", "r", "i", "g", "h", "t">>),
       One({"(c)"}),
       One({"A^"}) \o One({"(c)"}),
       Lit(<<"w", "w", "w">>) \o One(Dot),
       Lit(<<"h", "t", "t", "p">>),
       One({"@"}) >>

_is_likely_header_footer(text) ==
    LET text_lower == strip(lower(text))
    IN  \/ \E k \in DOMAIN header_footer_patterns :
              re_match(header_footer_patterns[k], text_lower)
        \/ (Len(text_lower) <= 3 /\ isdigit(text_lower))

title_prefixes_to_remove ==
    << <<"t", "i", "t", "l", "e", ":">>,
       <<"d", "o", "c", "u", "m", "e", "n", "t", ":">>,
       <<"p", "a", "p", "e", "r", ":">> >>

\* faulty variant of _clean_title_text: after the first prefix it goes on
\* removing the prefixes the text then starts with
MutCleanTitleText(title) ==
    LET collapsed == join(<<" ">>, split(title))
        Without(t, k) ==
            IF startswith(lower(t), title_prefixes_to_remove[k])
            THEN strip(SubSeq(t, Len(title_prefixes_to_remove[k]) + 1, Len(t)))
            ELSE t
        stripped  == Without(Without(Without(collapsed, 1), 2), 3)
    IN  IF stripped # <<>> /\ islower_char(stripped[1])
        THEN <<ToUpperChar(stripped[1])>> \o Tail(stripped)
        ELSE stripped

_clean_title_text(title) ==
    LET collapsed   == join(<<" ">>, split(title))
        title_lower == lower(collapsed)
        hits        == {k \in DOMAIN title_prefixes_to_remove :
                           startswith(title_lower, title_prefixes_to_remove[k])}
        stripped    ==
            IF hits = {} THEN collapsed
            ELSE LET k == CHOOSE h \in hits : \A o \in hits : h <= o
                 IN  strip(SubSeq(collapsed, Len(title_prefixes_to_remove[k]) + 1,
                                  Len(collapsed)))
    IN  IF stripped # <<>> /\ islower_char(stripped[1])
        THEN <<ToUpperChar(stripped[1])>> \o Tail(stripped)
        ELSE stripped

(***************************************************************************)
(* The helpers above are pure functions of the text.  For the texts the    *)
(* model feeds to the extractor their values are computed once, as the     *)
(* sets of texts each predicate holds for; any other text is computed on   *)
(* the spot.                                                               *)
(***************************************************************************)
\* the span texts PyMuPDF hands to the parser
SpanTexts == {T_draft, T_back_raw, T_title_only, T_intro, T_detail, T_ab, T_blank}

\* the texts given to the helpers one at a time
HelperTexts ==
    {T_intro, T_back, T_detail, T_method, T_draft, T_author, T_title_only,
     T_title_paper, T_hello, T_ab, T_contact, T_page, T_num, T_x, T_padded,
     T_long_sentence, T_too_long, T_draft_spaced, T_document, T_korean,
     T_copyright, T_www, T_at_home, T_three_of_five, T_two_of_four, T_capitals}

KnownTexts == {strip(t) : t \in SpanTexts \cup HelperTexts}

HeadingPatternTexts == {t \in KnownTexts : _matches_heading_pattern(t)}

NumberingTexts == {t \in KnownTexts : _has_numbering(t)}

KeywordTexts == {t \in KnownTexts : _contains_heading_keywords(t)}

TitleCaseTexts == {t \in KnownTexts : _is_title_case(t)}

HeaderFooterTexts == {t \in KnownTexts : _is_likely_header_footer(t)}

MatchesHeadingPattern(text) ==
    IF text \in KnownTexts THEN text \in HeadingPatternTexts
    ELSE _matches_heading_pattern(text)

HasNumbering(text) ==
    IF text \in KnownTexts THEN text \in NumberingTexts ELSE _has_numbering(text)

ContainsHeadingKeywords(text) ==
    IF text \in KnownTexts THEN text \in KeywordTexts
    ELSE _contains_heading_keywords(text)

IsTitleCase(text) ==
    IF text \in KnownTexts THEN text \in TitleCaseTexts ELSE _is_title_case(text)

IsLikelyHeaderFooter(text) ==
    IF text \in KnownTexts THEN text \in HeaderFooterTexts
    ELSE _is_likely_header_footer(text)

(***************************************************************************)
(* IEEE-754 binary64 arithmetic on the values the score takes.  A double   *)
(* is sign and magnitude, the magnitude an integer count of 2^-57 (the     *)
(* unit in the last place of 0.05, the smallest literal), written in two   *)
(* limbs: magnitude = hi * 2^28 + lo.  Every literal of the score is a     *)
(* whole number of such units, so every exact sum is too, and the result   *)
(* of an operation is that sum rounded to 53 significant bits, ties to     *)
(* even.                                                                   *)
(***************************************************************************)
Limb == 2^28

\* bits to drop so that the magnitude hi * 2^28 + lo keeps 53 significant bits
DropBits(hi) ==
    IF hi >= 2^29 THEN 5
    ELSE IF hi >= 2^28 THEN 4
    ELSE IF hi >= 2^27 THEN 3
    ELSE IF hi >= 2^26 THEN 2
    ELSE IF hi >= 2^25 THEN 1
    ELSE 0

\* round to nearest, ties to even
FRound(neg, hi, lo) ==
    LET unit  == 2^DropBits(hi)
        r     == lo % unit
        base  == lo - r
        up    == /\ unit > 1
                 /\ \/ 2 * r > unit
                    \/ (2 * r = unit /\ (base \div unit) % 2 = 1)
        lo2   == IF up THEN base + unit ELSE base
    IN  IF lo2 = Limb
        THEN [neg |-> neg, hi |-> hi + 1, lo |-> 0]
        ELSE [neg |-> neg, hi |-> hi, lo |-> lo2]

MagLess(a, b) == a.hi < b.hi \/ (a.hi = b.hi /\ a.lo < b.lo)

\* a + b
FAdd(a, b) ==
    IF a.neg = b.neg
    THEN LET lo == a.lo + b.lo
             c  == IF lo >= Limb THEN 1 ELSE 0
         IN  FRound(a.neg, a.hi + b.hi + c, lo - c * Limb)
    ELSE LET big   == IF MagLess(a, b) THEN b ELSE a
             small == IF MagLess(a, b) THEN a ELSE b
             c     == IF big.lo < small.lo THEN 1 ELSE 0
             hi    == big.hi - small.hi - c
             lo    == big.lo + c * Limb - small.lo
         IN  IF hi = 0 /\ lo = 0
             THEN [neg |-> FALSE, hi |-> 0, lo |-> 0]
             ELSE FRound(big.neg, hi, lo)

\* a - b
FSub(a, b) == FAdd(a, [neg |-> ~b.neg, hi |-> b.hi, lo |-> b.lo])

\* a < b
FLess(a, b) ==
    IF a.neg /\ ~b.neg THEN ~(a.hi = 0 /\ a.lo = 0 /\ b.hi = 0 /\ b.lo = 0)
    ELSE IF ~a.neg /\ b.neg THEN FALSE
    ELSE IF a.neg THEN MagLess(b, a)
    ELSE MagLess(a, b)

\* a > b
FGreater(a, b) == FLess(b, a)

\* min(a, b) of Python: b if b < a, else a
FMin(a, b) == IF FLess(b, a) THEN b ELSE a

\* the doubles the decimal literals of heading_extractor.py denote
D_0_0  == [neg |-> FALSE, hi |-> 0, lo |-> 0]

D_0_05 == [neg |-> FALSE, hi |-> 26843545, lo |-> 161061274]

D_0_1  == [neg |-> FALSE, hi |-> 53687091, lo |-> 53687092]

D_0_15 == [neg |-> FALSE, hi |-> 80530636, lo |-> 214748364]

D_0_2  == [neg |-> FALSE, hi |-> 107374182, lo |-> 107374184]

D_0_25 == [neg |-> FALSE, hi |-> 134217728, lo |-> 0]

D_0_3  == [neg |-> FALSE, hi |-> 161061273, lo |-> 161061272]

D_1_0  == [neg |-> FALSE, hi |-> 536870912, lo |-> 0]

(***************************************************************************)
(* HeadingExtractor._get_doc_stats.  avg_font_size is the exact fraction   *)
(* num/den; for the integer font sizes and the block counts of this model  *)
(* the comparisons of a font size with the double sum/len, and with        *)
(* 1.2 times it, come out as the exact comparisons below.                  *)
(***************************************************************************)
\* every block of every page, in order
RECURSIVE AllBlocks(_)
AllBlocks(pages) ==
    IF pages = <<>> THEN <<>>
    ELSE pages[1].text_blocks \o AllBlocks(Tail(pages))

RECURSIVE SumSizes(_)
SumSizes(blocks) ==
    IF blocks = <<>> THEN 0 ELSE blocks[1].font_size + SumSizes(Tail(blocks))

\* faulty variant of _get_doc_stats: the statistics of the first page stand
\* for the document
MutGetDocStats(pages) ==
    LET all_blocks     == IF pages = <<>> THEN <<>> ELSE pages[1].text_blocks
        all_font_sizes == {all_blocks[k].font_size : k \in DOMAIN all_blocks}
    IN  IF all_blocks = <<>>
        THEN [avg_font_size |-> [num |-> 12, den |-> 1]]
        ELSE [avg_font_size |-> [num |-> SumSizes(all_blocks), den |-> Len(all_blocks)],
              max_font_size |-> CHOOSE m \in all_font_sizes :
                                    \A o \in all_font_sizes : o <= m,
              min_font_size |-> CHOOSE m \in all_font_sizes :
                                    \A o \in all_font_sizes : m <= o,
              total_blocks  |-> Len(all_blocks)]

_get_doc_stats(pages) ==
    LET all_blocks     == AllBlocks(pages)
        all_font_sizes == {all_blocks[k].font_size : k \in DOMAIN all_blocks}
    IN  IF all_blocks = <<>>
        THEN [avg_font_size |-> [num |-> 12, den |-> 1]]
        ELSE [avg_font_size |-> [num |-> SumSizes(all_blocks), den |-> Len(all_blocks)],
              max_font_size |-> CHOOSE m \in all_font_sizes :
                                    \A o \in all_font_sizes : o <= m,
              min_font_size |-> CHOOSE m \in all_font_sizes :
                                    \A o \in all_font_sizes : m <= o,
              total_blocks  |-> Len(all_blocks)]

\* doc_stats.get('avg_font_size', 12)
AvgOf(doc_stats) ==
    IF "avg_font_size" \in DOMAIN doc_stats
    THEN doc_stats.avg_font_size
    ELSE [num |-> 12, den |-> 1]

\* faulty variant of LargerThanAvgTimes12: the factor is 2
MutLargerThanAvgTimes12(font_size, avg) == font_size * avg.den > 2 * avg.num

\* font_size > avg * 1.2
LargerThanAvgTimes12(font_size, avg) == 5 * font_size * avg.den > 6 * avg.num

\* font_size > avg
LargerThanAvg(font_size, avg) == font_size * avg.den > avg.num

\* font_size < avg
SmallerThanAvg(font_size, avg) == font_size * avg.den < avg.num

(***************************************************************************)
(* HeadingExtractor._calculate_heading_score                               *)
(***************************************************************************)
\* faulty variant of AddIfElif: the second test is an if of its own
MutAddIfElif(score, c1, d1, c2, d2) ==
    LET first == IF c1 THEN FAdd(score, d1) ELSE score
    IN  IF c2 THEN FAdd(first, d2) ELSE first

\* if c1: score += d1 / elif c2: score += d2
AddIfElif(score, c1, d1, c2, d2) ==
    IF c1 THEN FAdd(score, d1) ELSE IF c2 THEN FAdd(score, d2) ELSE score

\* if c1: score += d1 / elif c2: score -= d2
AddIfElifSub(score, c1, d1, c2, d2) ==
    IF c1 THEN FAdd(score, d1) ELSE IF c2 THEN FSub(score, d2) ELSE score

\* if c: score += d
AddIf(score, c, d) == IF c THEN FAdd(score, d) ELSE score

\* the statements of the function from the font size factor on, in order
ScoreOfText(text, block, avg_font_size) ==
    FMin(
      AddIf(
        AddIfElif(
          AddIfElifSub(
            AddIf(
              AddIf(
                AddIf(
                  AddIf(
                    AddIfElif(D_0_0,
                              LargerThanAvgTimes12(block.font_size, avg_font_size), D_0_3,
                              LargerThanAvg(block.font_size, avg_font_size), D_0_15),
                    block.is_bold, D_0_2),
                  block.x_position < 100, D_0_1),
                MatchesHeadingPattern(text), D_0_25),
              ContainsHeadingKeywords(text), D_0_15),
            5 <= Len(text) /\ Len(text) <= 100, D_0_1,
            Len(text) > 200, D_0_2),
          IsTitleCase(text), D_0_1,
          isupper(text) /\ Len(text) > 3, D_0_15),
        ~endswith(text, ".") /\ ~endswith(text, ","), D_0_05),
      D_1_0)

_calculate_heading_score(block, doc_stats) ==
    ScoreOfText(strip(block.text), block, AvgOf(doc_stats))

(***************************************************************************)
(* list.sort(key=...): a stable sort on integer-tuple keys.  items is a    *)
(* sequence of [key, val]; reverse=True on a numeric key is the ascending  *)
(* stable sort on the negated key (Python keeps equal keys in their        *)
(* original order in both directions).                                     *)
(***************************************************************************)
RECURSIVE KeyLess(_, _)
\* tuple comparison k1 < k2
KeyLess(k1, k2) ==
    IF k1 = <<>> \/ k2 = <<>> THEN k1 = <<>> /\ k2 # <<>>
    ELSE IF k1[1] # k2[1] THEN k1[1] < k2[1]
    ELSE KeyLess(Tail(k1), Tail(k2))

\* x goes behind every element that is not greater than it
InsertStable(sorted, x) ==
    LET k == Cardinality({i \in DOMAIN sorted : ~KeyLess(x.key, sorted[i].key)})
    IN  SubSeq(sorted, 1, k) \o <<x>> \o SubSeq(sorted, k + 1, Len(sorted))

RECURSIVE SortItems(_)
SortItems(items) ==
    IF items = <<>> THEN <<>>
    ELSE InsertStable(SortItems(SubSeq(items, 1, Len(items) - 1)), items[Len(items)])

Values(items) == [k \in 1..Len(items) |-> items[k].val]

(***************************************************************************)
(* HeadingExtractor._extract_page_headings                                 *)
(***************************************************************************)
\* the score threshold test of line 160
AboveThreshold(heading_score) == FGreater(heading_score, D_0_3)

\* whether the loop body appends the block whose trimmed text is text
AdmitsText(text, block, doc_stats) ==
    /\ ~(Len(text) < 2)
    /\ ~IsLikelyHeaderFooter(text)
    /\ ~(Len(text) > 300)
    /\ AboveThreshold(_calculate_heading_score(block, doc_stats))

IsPotentialHeading(block, doc_stats) == AdmitsText(strip(block.text), block, doc_stats)

\* the dict appended for an admitted block
HeadingOfText(text, block, page_num, doc_stats) ==
    [text              |-> text,
     page              |-> page_num,
     font_size         |-> block.font_size,
     is_bold           |-> block.is_bold,
     y_position        |-> block.y_position,
     x_position        |-> block.x_position,
     heading_score     |-> _calculate_heading_score(block, doc_stats),
     has_numbering     |-> HasNumbering(text),
     matches_pattern   |-> MatchesHeadingPattern(text),
     contains_keywords |-> ContainsHeadingKeywords(text)]

HeadingOf(block, page_num, doc_stats) ==
    HeadingOfText(strip(block.text), block, page_num, doc_stats)

RECURSIVE HeadingsOfBlocks(_, _, _)
HeadingsOfBlocks(blocks, page_num, doc_stats) ==
    IF blocks = <<>> THEN <<>>
    ELSE (IF IsPotentialHeading(blocks[1], doc_stats)
          THEN <<HeadingOf(blocks[1], page_num, doc_stats)>>
          ELSE <<>>)
         \o HeadingsOfBlocks(Tail(blocks), page_num, doc_stats)

_extract_page_headings(page, doc_stats) ==
    HeadingsOfBlocks(page.text_blocks, page.page_number, doc_stats)

(***************************************************************************)
(* HeadingExtractor._classify_headings                                     *)
(***************************************************************************)
RECURSIVE DescendingSeq(_)
\* sorted(set, reverse=True)
DescendingSeq(S) ==
    IF S = {} THEN <<>>
    ELSE LET m == CHOOSE x \in S : \A o \in S : o <= x
         IN  <<m>> \o DescendingSeq(S \ {m})

\* faulty variant of SortByFontSize: an ascending sort followed by a
\* reversal, which turns the order of equal sizes around
MutSortByFontSize(headings) ==
    LET ascending == Values(SortItems([k \in 1..Len(headings) |->
                                [key |-> <<headings[k].font_size>>, val |-> headings[k]]]))
    IN  [k \in 1..Len(ascending) |-> ascending[Len(ascending) + 1 - k]]

\* headings.sort(key=lambda x: x['font_size'], reverse=True)
SortByFontSize(headings) ==
    Values(SortItems([k \in 1..Len(headings) |->
                         [key |-> <<-headings[k].font_size>>, val |-> headings[k]]]))

\* faulty variant of SizeToLevel: the branch for a single font size is
\* missing, the dict stays empty then
MutSizeToLevel(font_sizes) ==
    [s \in {font_sizes[k] : k \in {j \in DOMAIN font_sizes : Len(font_sizes) >= 2}} |->
        IF Len(font_sizes) >= 3
        THEN IF s = font_sizes[1] THEN "H1"
             ELSE IF s = font_sizes[2] THEN "H2"
             ELSE "H3"
        ELSE IF s = font_sizes[1] THEN "H1" ELSE "H2"]

\* the size_to_level dict built from the distinct sizes, largest first
SizeToLevel(font_sizes) ==
    [s \in {font_sizes[k] : k \in DOMAIN font_sizes} |->
        IF Len(font_sizes) >= 3
        THEN IF s = font_sizes[1] THEN "H1"
             ELSE IF s = font_sizes[2] THEN "H2"
             ELSE "H3"
        ELSE IF Len(font_sizes) = 2
        THEN IF s = font_sizes[1] THEN "H1" ELSE "H2"
        ELSE "H1"]

\* size_to_level.get(font_size, 'H3')
BaseLevel(size_to_level, font_size) ==
    IF font_size \in DOMAIN size_to_level THEN size_to_level[font_size] ELSE "H3"

NumberingDepth1 == Plus(Digit) \o Opt(Dot) \o Plus(Whitespace)

NumberingDepth2 == Plus(Digit) \o One(Dot) \o Plus(Digit) \o Opt(Dot) \o Plus(Whitespace)

NumberingDepth3 ==
    Plus(Digit) \o One(Dot) \o Plus(Digit) \o One(Dot) \o Plus(Digit)
        \o Opt(Dot) \o Plus(Whitespace)

Depth1Texts == {t \in KnownTexts : re_match(NumberingDepth1, t)}

Depth2Texts == {t \in KnownTexts : re_match(NumberingDepth2, t)}

Depth3Texts == {t \in KnownTexts : re_match(NumberingDepth3, t)}

\* re.match of one of the three numbering patterns, known texts looked up
MatchesDepth(text, known_matches, pattern) ==
    IF text \in KnownTexts THEN text \in known_matches ELSE re_match(pattern, text)

\* faulty variant of RefinedLevel: the first pattern lacks its trailing \s+,
\* so every text that starts with digits takes the first branch
MutRefinedLevel(text, base_level) ==
    IF re_match(Plus(Digit) \o Opt(Dot), text) THEN "H1"
    ELSE IF MatchesDepth(text, Depth2Texts, NumberingDepth2) THEN "H2"
    ELSE IF MatchesDepth(text, Depth3Texts, NumberingDepth3) THEN "H3"
    ELSE base_level

\* the if / elif chain on the numbering patterns
RefinedLevel(text, base_level) ==
    IF MatchesDepth(text, Depth1Texts, NumberingDepth1) THEN "H1"
    ELSE IF MatchesDepth(text, Depth2Texts, NumberingDepth2) THEN "H2"
    ELSE IF MatchesDepth(text, Depth3Texts, NumberingDepth3) THEN "H3"
    ELSE base_level

RECURSIVE FirstOfEachText(_)
\* the headings without those whose text an earlier one carries
FirstOfEachText(headings) ==
    IF headings = <<>> THEN <<>>
    ELSE LET before == FirstOfEachText(SubSeq(headings, 1, Len(headings) - 1))
             last   == headings[Len(headings)]
         IN  IF \E k \in DOMAIN before : before[k].text = last.text
             THEN before
             ELSE Append(before, last)

\* faulty variant of AssignLevels: a heading whose text has been classified
\* already is skipped
MutAssignLevels(sorted, size_to_level) ==
    [k \in 1..Len(FirstOfEachText(sorted)) |->
        [level |-> RefinedLevel(strip(FirstOfEachText(sorted)[k].text),
                                BaseLevel(size_to_level,
                                          FirstOfEachText(sorted)[k].font_size))]
        @@ FirstOfEachText(sorted)[k]]

\* the loop over the sorted headings that sets heading['level']
AssignLevels(sorted, size_to_level) ==
    [k \in 1..Len(sorted) |->
        [level |-> RefinedLevel(strip(sorted[k].text),
                                BaseLevel(size_to_level, sorted[k].font_size))]
        @@ sorted[k]]

\* the distinct font sizes of the headings, largest first
FontSizesOf(headings) ==
    DescendingSeq({headings[k].font_size : k \in DOMAIN headings})

ClassifySorted(sorted) == AssignLevels(sorted, SizeToLevel(FontSizesOf(sorted)))

\* faulty variant of _classify_headings: the largest font of the document
\* takes part in the ranking of the sizes
MutClassifyHeadings(headings, doc_stats) ==
    IF headings = <<>> THEN <<>>
    ELSE AssignLevels(SortByFontSize(headings),
                      SizeToLevel(DescendingSeq(
                          {doc_stats.max_font_size}
                              \cup {headings[k].font_size : k \in DOMAIN headings})))

_classify_headings(headings, doc_stats) ==
    IF headings = <<>> THEN <<>>
    ELSE ClassifySorted(SortByFontSize(headings))

(***************************************************************************)
(* HeadingExtractor.extract_headings                                       *)
(***************************************************************************)
RECURSIVE PagesHeadings(_, _)
\* the loop over the pages: the potential headings in discovery order
PagesHeadings(pages, doc_stats) ==
    IF pages = <<>> THEN <<>>
    ELSE _extract_page_headings(pages[1], doc_stats)
         \o PagesHeadings(Tail(pages), doc_stats)

\* faulty variant of SortByPagePosition: the list is left as classified
MutSortByPagePosition(classified) == classified

\* classified_headings.sort(key=lambda x: (x['page'], x.get('y_position', 0)))
SortByPagePosition(classified) ==
    Values(SortItems([k \in 1..Len(classified) |->
                         [key |-> <<classified[k].page, classified[k].y_position>>,
                          val |-> classified[k]]]))

\* faulty variant of FinalHeading: the page is counted from 0
MutFinalHeading(heading) ==
    [level |-> heading.level, text |-> heading.text, page |-> heading.page - 1]

\* the dict appended to final_headings
FinalHeading(heading) ==
    [level |-> heading.level, text |-> heading.text, page |-> heading.page]

FinalHeadings(classified_headings) ==
    [k \in 1..Len(classified_headings) |-> FinalHeading(classified_headings[k])]

\* the locals of extract_headings at its return, given the potential headings
\* in discovery order
HeadingsRunFrom(potential, classified) ==
    [potential_headings  |-> potential,
     classified_headings |-> classified,
     final_headings      |-> FinalHeadings(classified)]

HeadingsRunOf(potential, doc_stats) ==
    HeadingsRunFrom(potential,
                    SortByPagePosition(_classify_headings(potential, doc_stats)))

HeadingsRunWith(pages, doc_stats) ==
    HeadingsRunOf(PagesHeadings(pages, doc_stats), doc_stats)

HeadingsRun(pages) ==
    IF pages = <<>>
    THEN [potential_headings |-> <<>>, classified_headings |-> <<>>,
          final_headings |-> <<>>]
    ELSE HeadingsRunWith(pages, _get_doc_stats(pages))

extract_headings(pages) == HeadingsRun(pages).final_headings

(***************************************************************************)
(* HeadingExtractor.extract_title                                          *)
(***************************************************************************)
\* whether the loop over the first page keeps the block as a title candidate
IsTitleCandidate(block, doc_stats) ==
    LET text == strip(block.text)
    IN  /\ ~SmallerThanAvg(block.font_size, AvgOf(doc_stats))
        /\ ~(Len(text) < 3 \/ Len(text) > 200)
        /\ ~IsLikelyHeaderFooter(text)

RECURSIVE TitleCandidates(_, _)
\* the loop over the blocks of the first page
TitleCandidates(blocks, doc_stats) ==
    IF blocks = <<>> THEN <<>>
    ELSE (IF IsTitleCandidate(blocks[1], doc_stats)
          THEN <<[text       |-> strip(blocks[1].text),
                  font_size  |-> blocks[1].font_size,
                  is_bold    |-> blocks[1].is_bold,
                  y_position |-> blocks[1].y_position]>>
          ELSE <<>>)
         \o TitleCandidates(Tail(blocks), doc_stats)

\* faulty variant of SortTitleCandidates: the topmost candidate comes first,
\* whatever its font size
MutSortTitleCandidates(title_candidates) ==
    Values(SortItems([k \in 1..Len(title_candidates) |->
                         [key |-> <<title_candidates[k].y_position>>,
                          val |-> title_candidates[k]]]))

\* title_candidates.sort(key=lambda x: (-x['font_size'], x['y_position']))
SortTitleCandidates(title_candidates) ==
    Values(SortItems([k \in 1..Len(title_candidates) |->
                         [key |-> <<-title_candidates[k].font_size,
                                    title_candidates[k].y_position>>,
                          val |-> title_candidates[k]]]))

\* faulty variant of TitleOrUntitled: the cleaned text is returned as it is
MutTitleOrUntitled(title) == title

\* return title if title else "Untitled Document"
TitleOrUntitled(title) == IF title # <<>> THEN title ELSE UntitledDocument

\* the choice among the title candidates and the cleanup
TitleFrom(title_candidates) ==
    IF title_candidates = <<>> THEN UntitledDocument
    ELSE TitleOrUntitled(_clean_title_text(SortTitleCandidates(title_candidates)[1].text))

extract_title(pages) ==
    IF pages = <<>> \/ pages[1].text_blocks = <<>> THEN UntitledDocument
    ELSE TitleFrom(TitleCandidates(pages[1].text_blocks, _get_doc_stats(pages)))

(***************************************************************************)
(* utils.validate_output                                                   *)
(***************************************************************************)
ValidHeading(heading) ==
    /\ {"level", "text", "page"} \subseteq DOMAIN heading
    /\ heading.level \in {"H1", "H2", "H3"}
    /\ strip(heading.text) # <<>>
    /\ heading.page \in Int /\ ~(heading.page < 1)

validate_output(data) ==
    /\ "title" \in DOMAIN data
    /\ "outline" \in DOMAIN data
    /\ \A i \in DOMAIN data.outline : ValidHeading(data.outline[i])

(***************************************************************************)
(* The extractor on fragments made by hand.  A fragment is a dict; one     *)
(* that has no entry for a key makes block['key'] raise KeyError, which    *)
(* nothing in HeadingExtractor catches: the call ends with it.             *)
(***************************************************************************)
Lacks(block, key) == key \notin DOMAIN block

\* the first entry of a sequence of lookup outcomes that is a missing key
RECURSIVE FirstRaised(_)
FirstRaised(outcomes) ==
    IF outcomes = <<>> THEN "none"
    ELSE IF outcomes[1] # "none" THEN outcomes[1]
    ELSE FirstRaised(Tail(outcomes))

\* _get_doc_stats: all_font_sizes.append(block['font_size']) for every block
StatsKeyError(pages) ==
    LET all_blocks == AllBlocks(pages)
    IN  IF \E k \in DOMAIN all_blocks : Lacks(all_blocks[k], "font_size")
        THEN "font_size" ELSE "none"

\* the loop body of _extract_page_headings, _calculate_heading_score
\* included, on one block: the key that is looked up first and is missing
HeadingKeyError(block, doc_stats) ==
    LET text == strip(block.text)
    IN  IF Len(text) < 2 \/ IsLikelyHeaderFooter(text) \/ Len(text) > 300
        THEN "none"
        ELSE IF Lacks(block, "is_bold") THEN "is_bold"
        ELSE IF Lacks(block, "x_position") THEN "x_position"
        ELSE IF /\ AboveThreshold(_calculate_heading_score(block, doc_stats))
                /\ Lacks(block, "y_position")
             THEN "y_position"
        ELSE "none"

\* extract_headings(pages): the exception it ends with, or what it returns
ExtractHeadingsCall(pages) ==
    LET all_blocks == AllBlocks(pages)
        raised ==
            IF pages = <<>> THEN "none"
            ELSE IF StatsKeyError(pages) # "none" THEN StatsKeyError(pages)
            ELSE FirstRaised([k \in DOMAIN all_blocks |->
                                 HeadingKeyError(all_blocks[k], _get_doc_stats(pages))])
    IN  [raised   |-> raised,
         returned |-> IF raised = "none" THEN extract_headings(pages) ELSE <<>>]

\* the loop body of extract_title on one block of the first page
TitleKeyError(block, doc_stats) ==
    IF ~IsTitleCandidate(block, doc_stats) THEN "none"
    ELSE IF Lacks(block, "is_bold") THEN "is_bold"
    ELSE IF Lacks(block, "y_position") THEN "y_position"
    ELSE "none"

\* extract_title(pages): the exception it ends with, or what it returns
ExtractTitleCall(pages) ==
    LET raised ==
            IF pages = <<>> \/ pages[1].text_blocks = <<>> THEN "none"
            ELSE IF StatsKeyError(pages) # "none" THEN StatsKeyError(pages)
            ELSE FirstRaised([k \in DOMAIN pages[1].text_blocks |->
                                 TitleKeyError(pages[1].text_blocks[k],
                                               _get_doc_stats(pages))])
    IN  [raised   |-> raised,
         returned |-> IF raised = "none" THEN extract_title(pages) ELSE <<>>]

(***************************************************************************)
(* State                                                                   *)
(***************************************************************************)
VARIABLES
    pages_data,            \* what parse_pdf has built so far / returned
    pc,                    \* "parse": parse_pdf runs; "ready": it has returned;
                           \* "done": a caller has used the extractor
    call,                  \* the operation that ran on pages_data
    title,                 \* the value extract_title returned
    outline,               \* the value extract_headings returned
    potential_headings,    \* extract_headings: the candidates as discovered
    classified_headings,   \* extract_headings: the list it formats at the end
    validated,             \* what validate_output returned to process_pdf
    ret,                   \* what process_pdf returned
    saved,                 \* the results written to the output file
    again,                 \* what a repeated classification and call returned
    served,                \* the documents this HeadingExtractor served before
    pending,               \* the documents its caller has still to hand over
    returned_stats,        \* the value _get_doc_stats returned to its caller
    fn_block,              \* a single fragment given to a helper
    fn_stats,              \* the doc_stats given with it
    fn_score,              \* what _calculate_heading_score returned for them
    fn_headings,           \* what _extract_page_headings returned for them
    fn_result,             \* what another function returned for them
    fn_raised,             \* the exception the call ended with, if any
    fn_pc                  \* which helper has run on them

vars == <<pages_data, pc, call, title, outline, potential_headings,
          classified_headings, validated, ret, saved, again, served, pending,
          returned_stats,
          fn_block, fn_stats, fn_score, fn_headings, fn_result, fn_raised, fn_pc>>

doc_vars == <<pages_data, pc, call, title, outline, potential_headings,
              classified_headings, validated, ret, saved, again, served, pending,
              returned_stats>>

fn_vars == <<fn_block, fn_stats, fn_score, fn_headings, fn_result, fn_raised, fn_pc>>

(***************************************************************************)
(* Bounds and input sets                                                   *)
(***************************************************************************)
MaxPages == 2

MaxBlocks == 3

\* the spans of the PDFs: text, size, bold flag and the bbox corner.  A
\* large title low on the page, a mid-size numbered line at the top with
\* blanks around its text, a small line that is nothing but a title prefix,
\* a small and a large numbered line sharing their vertical position, a
\* large light fragment off the margin, and a span of blanks.
PdfSpans ==
    { [text |-> T_draft,      size |-> 24, bold |-> TRUE,  x0 |-> 40,  y0 |-> 90],
      [text |-> T_back_raw,   size |-> 18, bold |-> TRUE,  x0 |-> 40,  y0 |-> 50],
      [text |-> T_title_only, size |-> 12, bold |-> TRUE,  x0 |-> 40,  y0 |-> 90],
      [text |-> T_intro,      size |-> 12, bold |-> TRUE,  x0 |-> 40,  y0 |-> 50],
      [text |-> T_detail,     size |-> 24, bold |-> TRUE,  x0 |-> 40,  y0 |-> 50],
      [text |-> T_ab,         size |-> 24, bold |-> FALSE, x0 |-> 120, y0 |-> 90],
      [text |-> T_blank,      size |-> 12, bold |-> FALSE, x0 |-> 40,  y0 |-> 50] }

\* the fragments and statistics given to the helpers one at a time
FnFontSizes == {12, 18}

FnXPositions == {40, 120}

FnAverages == {[num |-> 12, den |-> 1], [num |-> 15, den |-> 1]}

TotalBlocks(pages) == Len(AllBlocks(pages))

(***************************************************************************)
(* pdf_parser.PDFParser                                                    *)
(***************************************************************************)
\* the text_info _process_text_block appends for a span (the fields the
\* extractor reads)
TextInfo(text, size, flags_bold, bbox_x0, bbox_y0) ==
    [text       |-> text,
     font_size  |-> size,
     is_bold    |-> flags_bold,
     x_position |-> bbox_x0,
     y_position |-> bbox_y0]

\* no document parsed, no extraction made
NoDocument ==
    /\ pages_data = <<>>
    /\ pc = "parse"
    /\ call = "none"
    /\ title = <<>>
    /\ outline = <<>>
    /\ potential_headings = <<>>
    /\ classified_headings = <<>>
    /\ validated = "none"
    /\ ret = "none"
    /\ saved = <<>>
    /\ again = <<>>
    /\ served = <<>>
    /\ pending = <<>>
    /\ returned_stats = <<>>

Init ==
    /\ NoDocument
    /\ fn_block = TextInfo(T_draft, 12, TRUE, 40, 50)
    /\ fn_stats = [avg_font_size |-> [num |-> 12, den |-> 1]]
    /\ fn_score = D_0_0
    /\ fn_headings = <<>>
    /\ fn_result = <<>>
    /\ fn_raised = "none"
    /\ fn_pc = "idle"

\* parse_pdf: the loop reaches the next page, _extract_page_data starts it
ParsePage ==
    /\ pc = "parse"
    /\ Len(pages_data) < MaxPages
    /\ pages_data' = Append(pages_data,
                            [page_number |-> Len(pages_data) + 1, text_blocks |-> <<>>])
    /\ UNCHANGED <<pc, call, title, outline, potential_headings,
                   classified_headings, validated, ret, saved, again, served, pending,
                   returned_stats, fn_vars>>

\* _process_text_block: one span of the current page; empty text is skipped
ParseSpan ==
    /\ pc = "parse"
    /\ pages_data # <<>>
    /\ TotalBlocks(pages_data) < MaxBlocks
    /\ \E span \in PdfSpans :
          LET text == strip(span.text)
              n    == Len(pages_data)
          IN  IF text = <<>>
              THEN pages_data' = pages_data
              ELSE pages_data' =
                       [pages_data EXCEPT ![n].text_blocks =
                           Append(@, TextInfo(text, span.size, span.bold,
                                              span.x0, span.y0))]
    /\ UNCHANGED <<pc, call, title, outline, potential_headings,
                   classified_headings, validated, ret, saved, again, served, pending,
                   returned_stats, fn_vars>>

\* parse_pdf returns the pages
ParseReturn ==
    /\ pc = "parse"
    /\ pc' = "ready"
    /\ UNCHANGED <<pages_data, call, title, outline, potential_headings,
                   classified_headings, validated, ret, saved, again, served, pending,
                   returned_stats, fn_vars>>

\* parse_pdf: an exception (unreadable file) makes it return []
ParseError ==
    /\ pc = "parse"
    /\ pages_data' = <<>>
    /\ pc' = "ready"
    /\ UNCHANGED <<call, title, outline, potential_headings,
                   classified_headings, validated, ret, saved, again, served, pending,
                   returned_stats, fn_vars>>

(***************************************************************************)
(* Callers of the extractor                                                *)
(***************************************************************************)
\* faulty variant of CallExtractTitle: the extractor keeps the statistics
\* of the document it served last and uses them for the next one
MutCallExtractTitleStale ==
    /\ pc = "ready"
    /\ pc' = "done"
    /\ call' = "extract_title"
    /\ title' =
          IF served = <<>> \/ pages_data = <<>> \/ pages_data[1].text_blocks = <<>>
          THEN extract_title(pages_data)
          ELSE TitleFrom(TitleCandidates(pages_data[1].text_blocks,
                                         _get_doc_stats(served[Len(served)])))
    /\ UNCHANGED <<pages_data, outline, potential_headings,
                   classified_headings, validated, ret, saved, again, served, pending,
                   returned_stats,
                   fn_vars>>

\* a caller uses extract_title directly
CallExtractTitle ==
    /\ pc = "ready"
    /\ pc' = "done"
    /\ call' = "extract_title"
    /\ title' = extract_title(pages_data)
    /\ UNCHANGED <<pages_data, outline, potential_headings,
                   classified_headings, validated, ret, saved, again, served, pending,
                   returned_stats, fn_vars>>

\* the assignments that keep what extract_headings computed
KeepHeadings(run) ==
    /\ potential_headings' = run.potential_headings
    /\ classified_headings' = run.classified_headings
    /\ outline' = run.final_headings

\* faulty variant of CallExtractHeadings: the candidates are the fragments
\* themselves, so the sort by font size and the level land in pages_data
MutCallExtractHeadingsInPlace ==
    /\ pc = "ready"
    /\ pc' = "done"
    /\ call' = "extract_headings"
    /\ KeepHeadings(HeadingsRun(pages_data))
    /\ pages_data' =
          [p \in DOMAIN pages_data |->
              [pages_data[p] EXCEPT !.text_blocks =
                  [k \in DOMAIN @ |-> [level |-> "H1"] @@ SortByFontSize(@)[k]]]]
    /\ UNCHANGED <<title, validated, ret, saved, again, served, pending,
                   returned_stats, fn_vars>>

\* a caller uses extract_headings directly
CallExtractHeadings ==
    /\ pc = "ready"
    /\ pc' = "done"
    /\ call' = "extract_headings"
    /\ KeepHeadings(HeadingsRun(pages_data))
    /\ UNCHANGED <<pages_data, title, validated, ret, saved, again, served, pending,
                   returned_stats, fn_vars>>

\* what is in the output file when json.dump fails after open(path, 'w')
\* has created it: an incomplete JSON text, no title and no outline
TruncatedFile == [truncated |-> TRUE]

\* faulty variant of ValidateAndSave: the value save_json_output returns is
\* dropped and process_pdf returns True after the call
MutValidateAndSave(result) ==
    IF ~validate_output(result)
    THEN validated' = "False" /\ ret' = "False" /\ saved' = saved
    ELSE /\ validated' = "True"
         /\ ret' = "True"
         /\ saved' \in {<<result>>, saved, <<TruncatedFile>>}

\* process_pdf from the validation of the result on
ValidateAndSave(result) ==
    IF ~validate_output(result)
    THEN validated' = "False" /\ ret' = "False" /\ saved' = saved
    ELSE /\ validated' = "True"
         \* save_json_output writes the file and returns True, or an exception
         \* makes it return False: before the file is opened (mkdir, open) or
         \* while json.dump writes into it
         /\ \/ ret' = "True" /\ saved' = <<result>>
            \/ ret' = "False" /\ saved' = saved
            \/ ret' = "False" /\ saved' = <<TruncatedFile>>

\* process_pdf once both extractions have returned
AssembleResult(extracted_title, run) ==
    /\ title' = extracted_title
    /\ KeepHeadings(run)
    /\ ValidateAndSave([title |-> extracted_title, outline |-> run.final_headings])

\* faulty variant of ProcessPdf: the test of line 42 is missing, the result
\* is assembled whatever parse_pdf returned
MutProcessPdf ==
    /\ pc = "ready"
    /\ pc' = "done"
    /\ call' = "process_pdf"
    /\ AssembleResult(extract_title(pages_data), HeadingsRun(pages_data))
    /\ UNCHANGED <<pages_data, again, served, pending, returned_stats, fn_vars>>

\* main.process_pdf after parse_pdf has returned
ProcessPdf ==
    /\ pc = "ready"
    /\ pc' = "done"
    /\ call' = "process_pdf"
    /\ IF pages_data = <<>>
       THEN /\ ret' = "False"
            /\ UNCHANGED <<title, outline, potential_headings,
                           classified_headings, validated, saved>>
       ELSE AssembleResult(extract_title(pages_data), HeadingsRun(pages_data))
    /\ UNCHANGED <<pages_data, again, served, pending, returned_stats, fn_vars>>

\* a caller uses _get_doc_stats directly
CallGetDocStats ==
    /\ pc = "ready"
    /\ pc' = "done"
    /\ call' = "_get_doc_stats"
    /\ returned_stats' = _get_doc_stats(pages_data)
    /\ UNCHANGED <<pages_data, title, outline, potential_headings,
                   classified_headings, validated, ret, saved, again, served, pending,
                   fn_vars>>

\* the caller of extract_headings repeats the work on the same pages_data:
\* it classifies the candidates, classifies the list it got back once more,
\* and calls extract_headings a second time
RepeatExtractHeadings ==
    /\ pc = "done"
    /\ call = "extract_headings"
    /\ pc' = "repeated"
    /\ LET doc_stats == _get_doc_stats(pages_data)
           once      == _classify_headings(potential_headings, doc_stats)
       IN  again' = [once    |-> once,
                     twice   |-> _classify_headings(once, doc_stats),
                     outline |-> extract_headings(pages_data)]
    /\ UNCHANGED <<pages_data, call, title, outline, potential_headings,
                   classified_headings, validated, ret, saved, served, pending,
                   returned_stats,
                   fn_vars>>

Next ==
    \/ ParsePage
    \/ ParseSpan
    \/ ParseReturn
    \/ ParseError
    \/ CallExtractTitle
    \/ CallExtractHeadings
    \/ ProcessPdf
    \/ RepeatExtractHeadings
    \/ CallGetDocStats

Spec == Init /\ [][Next]_vars

(***************************************************************************)
(* One HeadingExtractor used for one parsed document after another.  The   *)
(* tests keep one extractor for all their calls; process_pdf builds a new  *)
(* one for every file.                                                     *)
(***************************************************************************)
MaxSeqBlocks == 2

\* the spans of these documents: a large bold title, a small bold numbered
\* line, and a large light line at the margin that is admitted or not
\* depending on the average font size
SeqSpans ==
    { [text |-> T_draft, size |-> 24, bold |-> TRUE,  x0 |-> 40, y0 |-> 90],
      [text |-> T_intro, size |-> 12, bold |-> TRUE,  x0 |-> 40, y0 |-> 50],
      [text |-> T_ab,    size |-> 24, bold |-> FALSE, x0 |-> 40, y0 |-> 50] }

SeqBlocks ==
    {TextInfo(strip(span.text), span.size, span.bold, span.x0, span.y0) : span \in SeqSpans}

\* what parse_pdf returns for them: no page, or one page of these blocks
SeqDocuments ==
    {<<>>} \cup
    UNION {{<<[page_number |-> 1, text_blocks |-> blocks]>> :
               blocks \in [1..n -> SeqBlocks]} : n \in 0..MaxSeqBlocks}

InitSeq ==
    /\ pages_data \in SeqDocuments
    /\ pc = "ready"
    /\ call = "none"
    /\ title = <<>>
    /\ outline = <<>>
    /\ potential_headings = <<>>
    /\ classified_headings = <<>>
    /\ validated = "none"
    /\ ret = "none"
    /\ saved = <<>>
    /\ again = <<>>
    /\ served = <<>>
    /\ \E document \in SeqDocuments : pending = <<document>>
    /\ returned_stats = <<>>
    /\ fn_block = TextInfo(T_draft, 12, TRUE, 40, 50)
    /\ fn_stats = [avg_font_size |-> [num |-> 12, den |-> 1]]
    /\ fn_score = D_0_0
    /\ fn_headings = <<>>
    /\ fn_result = <<>>
    /\ fn_raised = "none"
    /\ fn_pc = "idle"

\* the caller goes on to the next document with the same extractor; the
\* locals of the call just made are gone
NextDocument ==
    /\ pc = "done"
    /\ pending # <<>>
    /\ served' = Append(served, pages_data)
    /\ pages_data' = Head(pending)
    /\ pending' = Tail(pending)
    /\ returned_stats' = <<>>
    /\ pc' = "ready"
    /\ call' = "none"
    /\ title' = <<>>
    /\ outline' = <<>>
    /\ potential_headings' = <<>>
    /\ classified_headings' = <<>>
    /\ validated' = "none"
    /\ ret' = "none"
    /\ saved' = <<>>
    /\ UNCHANGED <<again, fn_vars>>

NextSeq ==
    \/ CallExtractTitle
    \/ CallExtractHeadings
    \/ NextDocument

SpecSeq == InitSeq /\ [][NextSeq]_vars

(***************************************************************************)
(* The helpers called on one fragment, as the tests call them              *)
(***************************************************************************)
InitFn ==
    /\ NoDocument
    /\ \E text \in HelperTexts, size \in FnFontSizes, bold \in BOOLEAN,
          x \in FnXPositions :
          fn_block = TextInfo(text, size, bold, x, 50)
    /\ \E avg \in FnAverages : fn_stats = [avg_font_size |-> avg]
    /\ fn_score = D_0_0
    /\ fn_headings = <<>>
    /\ fn_result = <<>>
    /\ fn_raised = "none"
    /\ fn_pc = "idle"

\* _calculate_heading_score(block, doc_stats)
CallCalculateHeadingScore ==
    /\ fn_pc = "idle"
    /\ fn_pc' = "scored"
    /\ fn_score' = _calculate_heading_score(fn_block, fn_stats)
    /\ UNCHANGED <<doc_vars, fn_block, fn_stats, fn_headings, fn_result, fn_raised>>

\* _extract_page_headings on a page holding the one fragment
CallExtractPageHeadings ==
    /\ fn_pc = "idle"
    /\ fn_pc' = "extracted"
    /\ fn_headings' = _extract_page_headings(
                          [page_number |-> 1, text_blocks |-> <<fn_block>>], fn_stats)
    /\ UNCHANGED <<doc_vars, fn_block, fn_stats, fn_score, fn_result, fn_raised>>

\* _clean_title_text on the text of the fragment
CallCleanTitleText ==
    /\ fn_pc = "idle"
    /\ fn_pc' = "cleaned"
    /\ fn_result' = _clean_title_text(fn_block.text)
    /\ UNCHANGED <<doc_vars, fn_block, fn_stats, fn_score, fn_headings, fn_raised>>

\* _is_likely_header_footer on the text of the fragment
CallIsLikelyHeaderFooter ==
    /\ fn_pc = "idle"
    /\ fn_pc' = "header_footer"
    /\ fn_result' = _is_likely_header_footer(fn_block.text)
    /\ UNCHANGED <<doc_vars, fn_block, fn_stats, fn_score, fn_headings, fn_raised>>

\* _matches_heading_pattern on the text of the fragment
CallMatchesHeadingPattern ==
    /\ fn_pc = "idle"
    /\ fn_pc' = "pattern"
    /\ fn_result' = _matches_heading_pattern(fn_block.text)
    /\ UNCHANGED <<doc_vars, fn_block, fn_stats, fn_score, fn_headings, fn_raised>>

\* _is_title_case on the text of the fragment
CallIsTitleCase ==
    /\ fn_pc = "idle"
    /\ fn_pc' = "title_case"
    /\ fn_result' = _is_title_case(fn_block.text)
    /\ UNCHANGED <<doc_vars, fn_block, fn_stats, fn_score, fn_headings, fn_raised>>

NextFn ==
    \/ CallCalculateHeadingScore
    \/ CallExtractPageHeadings
    \/ CallCleanTitleText
    \/ CallIsLikelyHeaderFooter
    \/ CallMatchesHeadingPattern
    \/ CallIsTitleCase

SpecFn == InitFn /\ [][NextFn]_vars

(***************************************************************************)
(* The extractor called on a page that holds one fragment made by hand,    *)
(* with or without its optional entries                                    *)
(***************************************************************************)
OptionalKeys == {"font_size", "is_bold", "x_position", "y_position"}

HandMadeTexts == {T_draft, T_intro, T_ab, T_num}

\* the dict without the entries of the keys in missing
WithoutKeys(block, missing) == [k \in DOMAIN block \ missing |-> block[k]]

OnePage(block) == <<[page_number |-> 1, text_blocks |-> <<block>>]>>

InitPartial ==
    /\ NoDocument
    /\ \E text \in HandMadeTexts, size \in FnFontSizes, bold \in BOOLEAN,
          x \in FnXPositions, missing \in SUBSET OptionalKeys :
          fn_block = WithoutKeys(TextInfo(text, size, bold, x, 50), missing)
    /\ fn_stats = [avg_font_size |-> [num |-> 12, den |-> 1]]
    /\ fn_score = D_0_0
    /\ fn_headings = <<>>
    /\ fn_result = <<>>
    /\ fn_raised = "none"
    /\ fn_pc = "idle"

\* extract_title([page]) with the fragment on the page
CallExtractTitleOnFragment ==
    /\ fn_pc = "idle"
    /\ fn_pc' = "title"
    /\ LET c == ExtractTitleCall(OnePage(fn_block))
       IN  fn_raised' = c.raised /\ fn_result' = c.returned
    /\ UNCHANGED <<doc_vars, fn_block, fn_stats, fn_score, fn_headings>>

\* extract_headings([page]) with the fragment on the page
CallExtractHeadingsOnFragment ==
    /\ fn_pc = "idle"
    /\ fn_pc' = "headings"
    /\ LET c == ExtractHeadingsCall(OnePage(fn_block))
       IN  fn_raised' = c.raised /\ fn_result' = c.returned
    /\ UNCHANGED <<doc_vars, fn_block, fn_stats, fn_score, fn_headings>>

NextPartial ==
    \/ CallExtractTitleOnFragment
    \/ CallExtractHeadingsOnFragment

SpecPartial == InitPartial /\ [][NextPartial]_vars

(***************************************************************************)
(* Properties                                                              *)
(***************************************************************************)
\* extract_headings has returned for the parsed document
HeadingsReturned ==
    /\ pc = "done"
    /\ call = "extract_headings" \/ (call = "process_pdf" /\ pages_data # <<>>)

\* extract_title has returned for the parsed document
TitleReturned ==
    /\ pc = "done"
    /\ call = "extract_title" \/ (call = "process_pdf" /\ pages_data # <<>>)

\* some fragment of page h.page has the text, size and position of heading h
HasSourceFragment(h) ==
    \E p \in DOMAIN pages_data :
        /\ pages_data[p].page_number = h.page
        /\ \E k \in DOMAIN pages_data[p].text_blocks :
              LET block == pages_data[p].text_blocks[k]
              IN  /\ strip(block.text) = h.text
                  /\ block.font_size = h.font_size
                  /\ block.y_position = h.y_position

\* a is not behind b in the order by (page, y)
PagePositionOrdered(a, b) ==
    \/ a.page < b.page
    \/ a.page = b.page /\ a.y_position <= b.y_position

\* C1: the outline extract_headings returns is sorted non-decreasingly by
\* (page, y of the source fragment): its entries are, in order, the headings
\* of the list the function formats, each of them comes from a fragment of
\* its page, and every two consecutive ones are ordered by (page, y).
C1_OutlineSortedByPagePosition ==
    HeadingsReturned =>
        /\ Len(outline) = Len(classified_headings)
        /\ \A i \in DOMAIN outline :
              /\ outline[i].text = classified_headings[i].text
              /\ outline[i].page = classified_headings[i].page
              /\ HasSourceFragment(classified_headings[i])
        /\ \A i \in 1..(Len(classified_headings) - 1) :
              PagePositionOrdered(classified_headings[i], classified_headings[i + 1])

\* C1 witness: an outline of two headings or more in which a smaller font
\* precedes a larger one, so that the order by font size that
\* _classify_headings leaves has been undone by the final sort.
C1_Witness ==
    /\ HeadingsReturned
    /\ \E i \in 1..(Len(classified_headings) - 1) :
          /\ classified_headings[i].font_size < classified_headings[i + 1].font_size
          /\ \/ classified_headings[i].page < classified_headings[i + 1].page
             \/ classified_headings[i].y_position
                    < classified_headings[i + 1].y_position

\* the text and font size of each heading of a list, in order
Identities(headings) ==
    [k \in 1..Len(headings) |-> <<headings[k].text, headings[k].font_size>>]

\* the headings of a list that share page and y with h, in order
TiedWith(h, headings) ==
    LET Same(x) == x.page = h.page /\ x.y_position = h.y_position
    IN  SelectSeq(headings, Same)

\* C2: admitted candidates with equal (page, y) appear in the outline in
\* their discovery order, whatever their font sizes: among the headings that
\* share a (page, y) the final list has the order of the candidate list.
C2_TiesKeepDiscoveryOrder ==
    HeadingsReturned =>
        \A i \in DOMAIN classified_headings :
            Identities(TiedWith(classified_headings[i], classified_headings))
                = Identities(TiedWith(classified_headings[i], potential_headings))

\* C3: _calculate_heading_score returns a value in [0, 1]: never above 1 and
\* never below 0.
C3_ScoreInUnitInterval ==
    fn_pc = "scored" =>
        /\ ~FLess(fn_score, D_0_0)
        /\ ~FGreater(fn_score, D_1_0)

\* the three numeric prefixes of the specification
ThreeLevelPattern ==
    Plus(Digit) \o One(Dot) \o Plus(Digit) \o One(Dot) \o Plus(Digit)
        \o Opt(Dot) \o Plus(Whitespace)

TwoLevelPattern ==
    Plus(Digit) \o One(Dot) \o Plus(Digit) \o Opt(Dot) \o Plus(Whitespace)

BareNumericPattern == Plus(Digit) \o Opt(Dot) \o Plus(Whitespace)

\* the known texts that start with each prefix, found once
ThreeLevelTexts == {t \in KnownTexts : re_match(ThreeLevelPattern, t)}

TwoLevelTexts == {t \in KnownTexts : re_match(TwoLevelPattern, t)}

BareNumericTexts == {t \in KnownTexts : re_match(BareNumericPattern, t)}

ThreeLevelPrefix(text) ==
    IF text \in KnownTexts THEN text \in ThreeLevelTexts
    ELSE re_match(ThreeLevelPattern, text)

TwoLevelPrefix(text) ==
    IF text \in KnownTexts THEN text \in TwoLevelTexts
    ELSE re_match(TwoLevelPattern, text)

BareNumericPrefix(text) ==
    IF text \in KnownTexts THEN text \in BareNumericTexts
    ELSE re_match(BareNumericPattern, text)

Unnumbered(text) ==
    ~ThreeLevelPrefix(text) /\ ~TwoLevelPrefix(text) /\ ~BareNumericPrefix(text)

\* the font sizes of the admitted candidates
CandidateSizes == {potential_headings[k].font_size : k \in DOMAIN potential_headings}

\* the rank of a size among the distinct candidate sizes, largest first
FontRank(font_size) == Cardinality({s \in CandidateSizes : s > font_size})

\* rank 0 is H1, rank 1 is H2, every lower rank is H3
FontRankLevel(font_size) ==
    IF FontRank(font_size) = 0 THEN "H1"
    ELSE IF FontRank(font_size) = 1 THEN "H2"
    ELSE "H3"

\* the override tested deepest prefix first
DeepestFirstLevel(text, font_rank_level) ==
    IF ThreeLevelPrefix(text) THEN "H3"
    ELSE IF TwoLevelPrefix(text) THEN "H2"
    ELSE IF BareNumericPrefix(text) THEN "H1"
    ELSE font_rank_level

\* C4: the numbering override wins over font rank: a candidate with a
\* three-level numeric prefix is H3, with a two-level prefix H2, with a bare
\* numeric prefix H1, and only a candidate with none of them keeps its
\* font-rank level; the levels the code assigns testing the prefixes
\* shallowest first are those of the test deepest first.
C4_NumberingOverrideWins ==
    HeadingsReturned =>
        \A i \in DOMAIN classified_headings :
            /\ classified_headings[i].level =
                   DeepestFirstLevel(strip(classified_headings[i].text),
                                     FontRankLevel(classified_headings[i].font_size))
            /\ outline[i].level = classified_headings[i].level

\* C4 witness: '1.1.1 Detail' at the largest candidate font size, with a
\* smaller candidate beside it, is classified H3.
C4_Witness ==
    /\ HeadingsReturned
    /\ \E i \in DOMAIN classified_headings :
          /\ classified_headings[i].text = T_detail
          /\ FontRank(classified_headings[i].font_size) = 0
          /\ Cardinality(CandidateSizes) > 1
          /\ outline[i].level = "H3"

\* C5: the font rank is taken among the distinct sizes of the admitted
\* candidates only, largest first; a candidate without a numeric prefix is
\* H1 at rank 0, H2 at rank 1 and H3 at any lower rank, so that with two
\* distinct sizes no such candidate is H3 and with one size all are H1.
C5_FontRankAmongCandidates ==
    HeadingsReturned =>
        \A i \in DOMAIN classified_headings :
            Unnumbered(strip(classified_headings[i].text)) =>
                LET rank == FontRank(classified_headings[i].font_size)
                IN  /\ classified_headings[i].font_size \in CandidateSizes
                    /\ rank = 0 => outline[i].level = "H1"
                    /\ rank = 1 => outline[i].level = "H2"
                    /\ rank >= 2 => outline[i].level = "H3"
                    /\ Cardinality(CandidateSizes) = 2 => outline[i].level # "H3"
                    /\ Cardinality(CandidateSizes) = 1 => outline[i].level = "H1"

\* C5 witness: a fragment that is not admitted has a larger font than every
\* candidate, and an un-numbered candidate of the largest candidate size is
\* H1.
C5_Witness ==
    /\ HeadingsReturned
    /\ \E k \in DOMAIN AllBlocks(pages_data) :
          \A s \in CandidateSizes : AllBlocks(pages_data)[k].font_size > s
    /\ \E i \in DOMAIN classified_headings :
          /\ Unnumbered(classified_headings[i].text)
          /\ FontRank(classified_headings[i].font_size) = 0
          /\ outline[i].level = "H1"

\* the decimal sum, in hundredths, of the score terms that fire for a block
FiredTermsHundredths(text, block, avg) ==
    (IF LargerThanAvgTimes12(block.font_size, avg) THEN 30
     ELSE IF LargerThanAvg(block.font_size, avg) THEN 15 ELSE 0)
    + (IF block.is_bold THEN 20 ELSE 0)
    + (IF block.x_position < 100 THEN 10 ELSE 0)
    + (IF MatchesHeadingPattern(text) THEN 25 ELSE 0)
    + (IF ContainsHeadingKeywords(text) THEN 15 ELSE 0)
    + (IF 5 <= Len(text) /\ Len(text) <= 100 THEN 10
       ELSE IF Len(text) > 200 THEN -20 ELSE 0)
    + (IF IsTitleCase(text) THEN 10
       ELSE IF isupper(text) /\ Len(text) > 3 THEN 15 ELSE 0)
    + (IF ~endswith(text, ".") /\ ~endswith(text, ",") THEN 5 ELSE 0)

\* C6: a fragment becomes a candidate of _extract_page_headings if and only
\* if its trimmed text has 2 to 300 characters, is not a likely header or
\* footer, and its score is strictly greater than 0.3; a fragment whose
\* fired score terms sum to exactly 0.30 is not admitted.
C6_AdmittedIffAboveThreshold ==
    fn_pc = "extracted" =>
        LET text == strip(fn_block.text)
        IN  /\ fn_headings # <<>> <=>
                  /\ Len(text) >= 2
                  /\ Len(text) <= 300
                  /\ ~IsLikelyHeaderFooter(text)
                  /\ FGreater(_calculate_heading_score(fn_block, fn_stats), D_0_3)
            /\ FiredTermsHundredths(text, fn_block, AvgOf(fn_stats)) = 30 =>
                  fn_headings = <<>>

\* C7: every heading extract_headings returns has exactly the keys level,
\* text and page, a level among H1, H2, H3, an integer page of at least 1
\* and a non-empty text that is the trimmed text of a fragment of that page;
\* the result process_pdf builds from the title and these headings is
\* accepted by validate_output.
C7_HeadingsValid ==
    HeadingsReturned =>
        /\ \A i \in DOMAIN outline :
              /\ DOMAIN outline[i] = {"level", "text", "page"}
              /\ outline[i].level \in {"H1", "H2", "H3"}
              /\ outline[i].page \in Int
              /\ outline[i].page >= 1
              /\ outline[i].text # <<>>
              /\ \E p \in DOMAIN pages_data :
                    /\ pages_data[p].page_number = outline[i].page
                    /\ \E k \in DOMAIN pages_data[p].text_blocks :
                          strip(pages_data[p].text_blocks[k].text) = outline[i].text
        /\ call = "process_pdf" =>
              /\ validated = "True"
              /\ ret = "True" => saved = <<[title |-> title, outline |-> outline]>>

\* C7 witness: process_pdf has validated and saved a result whose outline
\* has headings of two levels on two pages.
C7_Witness ==
    /\ pc = "done"
    /\ call = "process_pdf"
    /\ validated = "True"
    /\ ret = "True"
    /\ \E i, j \in DOMAIN outline :
          /\ outline[i].level # outline[j].level
          /\ outline[i].page # outline[j].page

\* C8 as claimed: for a document of zero pages extract_title returns the
\* sentinel, extract_headings returns the empty list, and the run that
\* assembles the result reports no failure.
C8_EmptyDocumentNoFailure ==
    (pc = "done" /\ pages_data = <<>>) =>
        /\ call = "extract_title" => title = UntitledDocument
        /\ call = "extract_headings" => outline = <<>>
        /\ call = "process_pdf" => ret # "False"

\* C8 as amended: for a document of zero pages extract_title returns the
\* sentinel and extract_headings returns the empty list, but process_pdf
\* calls neither: it returns False, validates nothing and saves nothing.
C8_EmptyDocument ==
    (pc = "done" /\ pages_data = <<>>) =>
        /\ call = "extract_title" => title = UntitledDocument
        /\ call = "extract_headings" => outline = <<>>
        /\ call = "process_pdf" =>
              /\ ret = "False"
              /\ validated = "none"
              /\ saved = <<>>
              /\ title = <<>>
              /\ outline = <<>>

\* C8 witness: process_pdf has run on a document of zero pages
C8_Witness ==
    /\ pc = "done"
    /\ pages_data = <<>>
    /\ call = "process_pdf"
    /\ ret = "False"

\* the fragments of the first page
FirstPageBlocks == IF pages_data = <<>> THEN <<>> ELSE pages_data[1].text_blocks

\* whether the font size is at least the average over every fragment of
\* every page
AtLeastDocumentAverage(font_size) ==
    font_size * Len(AllBlocks(pages_data)) >= SumSizes(AllBlocks(pages_data))

\* the title pool: the indices of the first-page fragments that qualify
TitlePool ==
    {k \in DOMAIN FirstPageBlocks :
        /\ AtLeastDocumentAverage(FirstPageBlocks[k].font_size)
        /\ Len(strip(FirstPageBlocks[k].text)) >= 3
        /\ Len(strip(FirstPageBlocks[k].text)) <= 200
        /\ ~IsLikelyHeaderFooter(strip(FirstPageBlocks[k].text))}

\* the pool members of the largest font and, among those, the least y
BestOfPool ==
    {k \in TitlePool :
        \A o \in TitlePool :
            \/ FirstPageBlocks[o].font_size < FirstPageBlocks[k].font_size
            \/ /\ FirstPageBlocks[o].font_size = FirstPageBlocks[k].font_size
               /\ FirstPageBlocks[k].y_position <= FirstPageBlocks[o].y_position}

\* the cleaned text of a first-page fragment
CleanedText(k) == _clean_title_text(strip(FirstPageBlocks[k].text))

C10_SentinelAndShape ==
    TitleReturned =>
        /\ title # <<>>
        /\ title[1] \notin Whitespace
        /\ title[Len(title)] \notin Whitespace
        /\ TitlePool = {} => title = UntitledDocument
        /\ (TitlePool # {} /\ \A k \in BestOfPool : CleanedText(k) = <<>>) =>
              title = UntitledDocument

\* C10 witness: the chosen text is 'Title:', whose cleanup leaves nothing,
\* and the title is the sentinel.
C10_Witness ==
    /\ TitleReturned
    /\ BestOfPool # {}
    /\ \A k \in BestOfPool : strip(FirstPageBlocks[k].text) = T_title_only
    /\ title = UntitledDocument

(***************************************************************************)
(* Title cleanup                                                           *)
(***************************************************************************)
\* a blank of t that stands first in a run of blanks between two words
FirstBlankBetweenWords(t, i) ==
    /\ t[i] \in Whitespace
    /\ i > 1 /\ t[i - 1] \notin Whitespace
    /\ \E j \in (i + 1)..Len(t) : t[j] \notin Whitespace

\* the characters of t at positions lo..hi, blanks at the ends of t dropped
\* and every run of blanks between two words replaced by one space
RECURSIVE CollapsedRange(_, _, _)
CollapsedRange(t, lo, hi) ==
    IF lo > hi THEN <<>>
    ELSE IF lo = hi
         THEN IF t[lo] \notin Whitespace THEN <<t[lo]>>
              ELSE IF FirstBlankBetweenWords(t, lo) THEN <<" ">> ELSE <<>>
         ELSE LET mid == (lo + hi) \div 2
              IN  CollapsedRange(t, lo, mid) \o CollapsedRange(t, mid + 1, hi)

Collapsed(t) == CollapsedRange(t, 1, Len(t))

\* the characters of t at positions lo..hi that are not blanks, in order
RECURSIVE NonBlanksRange(_, _, _)
NonBlanksRange(t, lo, hi) ==
    IF lo > hi THEN <<>>
    ELSE IF lo = hi
         THEN IF t[lo] \in Whitespace THEN <<>> ELSE <<t[lo]>>
         ELSE LET mid == (lo + hi) \div 2
              IN  NonBlanksRange(t, lo, mid) \o NonBlanksRange(t, mid + 1, hi)

NonBlanks(t) == NonBlanksRange(t, 1, Len(t))

\* the prefixes of the list a collapsed text starts with, whatever the case
LeadingPrefixes(t) ==
    {k \in 1..3 : startswith(lower(t), title_prefixes_to_remove[k])}

\* t with its first character in upper case if it was a lowercase letter
FirstUpper(t) ==
    IF t = <<>> THEN t ELSE <<ToUpperChar(t[1])>> \o Tail(t)

\* what the cleanup of a text is to give
CleanedAsSpecified(t) ==
    LET collapsed == Collapsed(t)
        found     == LeadingPrefixes(collapsed)
    IN  IF found = {} THEN FirstUpper(collapsed)
        ELSE LET first == CHOOSE k \in found : \A o \in found : k <= o
                 n     == Len(title_prefixes_to_remove[first])
             IN  FirstUpper(Collapsed(SubSeq(collapsed, n + 1, Len(collapsed))))

\* C11: _clean_title_text returns the text with every run of blanks
\* collapsed to one space, then without the first prefix of 'title:',
\* 'document:', 'paper:' it starts with in any case (one prefix only, a
\* second one left in front stays), then with a lowercase first character
\* in upper case; a text without such a prefix keeps its non-blank
\* characters in order.
C11_CleanTitleText ==
    fn_pc = "cleaned" =>
        /\ fn_result = CleanedAsSpecified(fn_block.text)
        /\ LeadingPrefixes(Collapsed(fn_block.text)) = {} =>
              NonBlanks(fn_result) = FirstUpper(NonBlanks(fn_block.text))
        /\ fn_block.text = T_title_paper =>
              fn_result = <<"P", "a", "p", "e", "r", ":", " ", "x">>

\* 'title: paper: x' has been cleaned to 'Paper: x'
C11_Witness ==
    /\ fn_pc = "cleaned"
    /\ fn_block.text = T_title_paper
    /\ fn_result = <<"P", "a", "p", "e", "r", ":", " ", "x">>

(***************************************************************************)
(* Fragments without their optional attributes                             *)
(***************************************************************************)
\* the fragment with the documented default in place of each missing entry
WithDefaults(block) ==
    [text       |-> block.text,
     font_size  |-> IF Lacks(block, "font_size") THEN 12 ELSE block.font_size,
     is_bold    |-> IF Lacks(block, "is_bold") THEN FALSE ELSE block.is_bold,
     x_position |-> IF Lacks(block, "x_position") THEN 0 ELSE block.x_position,
     y_position |-> IF Lacks(block, "y_position") THEN 0 ELSE block.y_position]

\* C12: a fragment that lacks an optional attribute never makes
\* extract_title or extract_headings fail; the call returns what it returns
\* for the fragment with font size 12, not bold, position (0, 0) in place
\* of what is missing.
C12_MissingAttributesDefaulted ==
    /\ fn_pc = "title" =>
          /\ fn_raised = "none"
          /\ fn_result = extract_title(OnePage(WithDefaults(fn_block)))
    /\ fn_pc = "headings" =>
          /\ fn_raised = "none"
          /\ fn_result = extract_headings(OnePage(WithDefaults(fn_block)))

(***************************************************************************)
(* Degenerate documents                                                    *)
(***************************************************************************)
\* no fragment of the document scores above the admission threshold
NothingAboveThreshold ==
    LET all_blocks == AllBlocks(pages_data)
    IN  \A k \in DOMAIN all_blocks :
            ~FGreater(_calculate_heading_score(all_blocks[k], _get_doc_stats(pages_data)),
                      D_0_3)

\* a non-empty text
IsString(t) == t # <<>> /\ \A i \in DOMAIN t : t[i] \in STRING

\* C13: degenerate documents give a valid result.  For a non-empty page
\* list in which no page has fragments, or in which every fragment scores
\* at most 0.3, extract_headings returns [] and extract_title returns a
\* string (the sentinel when there is no fragment); when all admitted
\* candidates share one font size, the un-numbered entries of the returned
\* list are all H1.
C13_DegenerateDocuments ==
    /\ (pc = "done" /\ pages_data # <<>>
           /\ (TotalBlocks(pages_data) = 0 \/ NothingAboveThreshold)) =>
          /\ HeadingsReturned => outline = <<>>
          /\ TitleReturned => IsString(title)
          /\ (TitleReturned /\ TotalBlocks(pages_data) = 0) => title = UntitledDocument
          /\ (pc = "done" /\ call = "process_pdf") => validated = "True"
    /\ (HeadingsReturned /\ Cardinality(CandidateSizes) = 1) =>
          /\ Len(outline) = Len(potential_headings)
          /\ \A i \in DOMAIN outline :
                /\ outline[i].level \in {"H1", "H2", "H3"}
                /\ Unnumbered(outline[i].text) => outline[i].level = "H1"

\* C13 witness: extract_headings and extract_title have run inside
\* process_pdf on a document with fragments, none of which is admitted
C13_Witness ==
    /\ pc = "done" /\ call = "process_pdf"
    /\ TotalBlocks(pages_data) > 0
    /\ NothingAboveThreshold
    /\ outline = <<>>
    /\ title # UntitledDocument

(***************************************************************************)
(* Repeated classification and repeated calls                              *)
(***************************************************************************)
\* the levels of a list of headings, in its order
LevelsOf(headings) == [k \in DOMAIN headings |-> headings[k].level]

\* the headings of a list without their level, in its order
WithoutLevel(headings) ==
    [k \in DOMAIN headings |->
        [f \in DOMAIN headings[k] \ {"level"} |-> headings[k][f]]]

CompleteResult ==
    [title |-> extract_title(pages_data), outline |-> extract_headings(pages_data)]

\* C17: process_pdf is all-or-nothing.  Nothing is written before parsing,
\* both extractions and validate_output have succeeded; process_pdf
\* returns True exactly when the complete, valid result is what the output
\* file holds; when parsing gave no pages, validation failed or the save
\* failed it returns False and the file holds no result (it does not exist,
\* or holds the incomplete text of a failed write).
C17_AllOrNothing ==
    /\ (pc # "done" \/ call # "process_pdf") => saved = <<>>
    /\ (pc = "done" /\ call = "process_pdf") =>
          /\ ret \in {"True", "False"}
          /\ ret = "True" =>
                /\ saved = <<CompleteResult>>
                /\ pages_data # <<>>
                /\ validated = "True"
                /\ validate_output(saved[1])
                /\ title = saved[1].title /\ outline = saved[1].outline
          /\ (pages_data = <<>> \/ validated # "True") => (ret = "False" /\ saved = <<>>)
          /\ ret = "False" => saved \in {<<>>, <<TruncatedFile>>}

\* C17 witness: a valid result with a non-empty outline was computed, the
\* save failed, process_pdf returned False and no result is in the file
C17_Witness ==
    /\ pc = "done" /\ call = "process_pdf"
    /\ validated = "True"
    /\ outline # <<>>
    /\ ret = "False"
    /\ saved = <<>>

(***************************************************************************)
(* The score and the text                                                  *)
(***************************************************************************)
\* the fragment is bold, left of x = 100, and more than 1.2 times as large
\* as the average font
BoldLeftAndLarge ==
    /\ fn_block.is_bold
    /\ fn_block.x_position < 100
    /\ 5 * fn_block.font_size * fn_stats.avg_font_size.den
           > 6 * fn_stats.avg_font_size.num

\* C18: a fragment that is bold, has x < 100 and a font size greater than
\* 1.2 times the average scores strictly above 0.3 whatever its text is:
\* without Latin letters, without keyword, with a trailing period, longer
\* than 200 characters.
C18_FormattingAloneAdmits ==
    (fn_pc = "scored" /\ BoldLeftAndLarge) => FGreater(fn_score, D_0_3)

\* C18 witness: such a fragment of more than 200 characters that ends with
\* a period and has no keyword has been scored
C18_Witness ==
    /\ fn_pc = "scored"
    /\ BoldLeftAndLarge
    /\ fn_block.text = T_long_sentence
    /\ FGreater(fn_score, D_0_3)
    /\ FLess(fn_score, FAdd(D_0_3, D_0_1))

(***************************************************************************)
(* The score as a sum                                                      *)
(***************************************************************************)
\* the double nearest to h / 100, for the multiples of 0.05 from -0.20 to 1.30
HundredthsDouble ==
    -20 :> [neg |-> TRUE, hi |-> 107374182, lo |-> 107374184] @@
    -15 :> [neg |-> TRUE, hi |-> 80530636, lo |-> 214748364] @@
    -10 :> [neg |-> TRUE, hi |-> 53687091, lo |-> 53687092] @@
    -5 :> [neg |-> TRUE, hi |-> 26843545, lo |-> 161061274] @@
    0 :> [neg |-> FALSE, hi |-> 0, lo |-> 0] @@
    5 :> [neg |-> FALSE, hi |-> 26843545, lo |-> 161061274] @@
    10 :> [neg |-> FALSE, hi |-> 53687091, lo |-> 53687092] @@
    15 :> [neg |-> FALSE, hi |-> 80530636, lo |-> 214748364] @@
    20 :> [neg |-> FALSE, hi |-> 107374182, lo |-> 107374184] @@
    25 :> [neg |-> FALSE, hi |-> 134217728, lo |-> 0] @@
    30 :> [neg |-> FALSE, hi |-> 161061273, lo |-> 161061272] @@
    35 :> [neg |-> FALSE, hi |-> 187904819, lo |-> 53687088] @@
    40 :> [neg |-> FALSE, hi |-> 214748364, lo |-> 214748368] @@
    45 :> [neg |-> FALSE, hi |-> 241591910, lo |-> 107374184] @@
    50 :> [neg |-> FALSE, hi |-> 268435456, lo |-> 0] @@
    55 :> [neg |-> FALSE, hi |-> 295279001, lo |-> 161061280] @@
    60 :> [neg |-> FALSE, hi |-> 322122547, lo |-> 53687088] @@
    65 :> [neg |-> FALSE, hi |-> 348966092, lo |-> 214748368] @@
    70 :> [neg |-> FALSE, hi |-> 375809638, lo |-> 107374176] @@
    75 :> [neg |-> FALSE, hi |-> 402653184, lo |-> 0] @@
    80 :> [neg |-> FALSE, hi |-> 429496729, lo |-> 161061280] @@
    85 :> [neg |-> FALSE, hi |-> 456340275, lo |-> 53687088] @@
    90 :> [neg |-> FALSE, hi |-> 483183820, lo |-> 214748368] @@
    95 :> [neg |-> FALSE, hi |-> 510027366, lo |-> 107374176] @@
    100 :> [neg |-> FALSE, hi |-> 536870912, lo |-> 0] @@
    105 :> [neg |-> FALSE, hi |-> 563714457, lo |-> 161061280] @@
    110 :> [neg |-> FALSE, hi |-> 590558003, lo |-> 53687104] @@
    115 :> [neg |-> FALSE, hi |-> 617401548, lo |-> 214748352] @@
    120 :> [neg |-> FALSE, hi |-> 644245094, lo |-> 107374176] @@
    125 :> [neg |-> FALSE, hi |-> 671088640, lo |-> 0] @@
    130 :> [neg |-> FALSE, hi |-> 697932185, lo |-> 161061280]

\* the deltas of the conditions that hold, in the order of the table; each
\* of the three pairs gives at most one, its first condition going first
FiredDeltas(text, block, avg) ==
    (IF 5 * block.font_size * avg.den > 6 * avg.num THEN <<30>>
     ELSE IF block.font_size * avg.den > avg.num THEN <<15>> ELSE <<>>)
    \o (IF block.is_bold THEN <<20>> ELSE <<>>)
    \o (IF block.x_position < 100 THEN <<10>> ELSE <<>>)
    \o (IF MatchesHeadingPattern(text) THEN <<25>> ELSE <<>>)
    \o (IF ContainsHeadingKeywords(text) THEN <<15>> ELSE <<>>)
    \o (IF 5 <= Len(text) /\ Len(text) <= 100 THEN <<10>>
        ELSE IF Len(text) > 200 THEN <<-20>> ELSE <<>>)
    \o (IF IsTitleCase(text) THEN <<10>>
        ELSE IF isupper(text) /\ Len(text) > 3 THEN <<15>> ELSE <<>>)
    \o (IF ~endswith(text, ".") /\ ~endswith(text, ",") THEN <<5>> ELSE <<>>)

\* the deltas added one after the other to a running score, as doubles
RECURSIVE AddedUp(_, _)
AddedUp(score, deltas) ==
    IF deltas = <<>> THEN score
    ELSE AddedUp(FAdd(score, HundredthsDouble[deltas[1]]), Tail(deltas))

RECURSIVE DecimalSum(_)
DecimalSum(deltas) ==
    IF deltas = <<>> THEN 0 ELSE deltas[1] + DecimalSum(Tail(deltas))

\* two doubles less than 2^-47 apart
Within47(a, b) == MagLess(FSub(a, b), [neg |-> FALSE, hi |-> 0, lo |-> 1024])

\* the score returned for the fragment is the sum of the fired deltas, cut
\* at 1.0
IsClampedSum(score, deltas) ==
    /\ score = FMin(AddedUp(D_0_0, deltas), D_1_0)
    /\ Within47(AddedUp(D_0_0, deltas), HundredthsDouble[DecimalSum(deltas)])

\* 'METHODOLOGY', 18 pt, bold, x 40, against an average of 12
IsScoringExample ==
    /\ fn_block.text = T_method
    /\ fn_block.font_size = 18 /\ fn_block.is_bold /\ fn_block.x_position = 40
    /\ fn_stats.avg_font_size = [num |-> 12, den |-> 1]

StartsWithPageNumber(t) ==
    /\ startswith(t, <<"p", "a", "g", "e">>)
    /\ \E n \in 1..(Len(t) - 5) :
          /\ \A i \in 5..(4 + n) : t[i] \in Whitespace
          /\ t[5 + n] \in Digit

\* what the filter is to recognise, on the lower-cased and trimmed text
HeaderFooterAsSpecified(text, at_sign_anywhere) ==
    LET t == strip(lower(text))
    IN  \/ isdigit(t)
        \/ StartsWithPageNumber(t)
        \/ startswith(t, <<"c", "o", "p", "y", "r", "i", "g", "h", "t">>)
        \/ startswith(t, <<"(c)">>)
        \/ startswith(t, <<"A^", "(c)">>)
        \/ startswith(t, <<"w", "w", "w", ".">>)
        \/ startswith(t, <<"h", "t", "t", "p">>)
        \/ IF at_sign_anywhere THEN \E i \in DOMAIN t : t[i] = "@"
           ELSE startswith(t, <<"@">>)

\* C20: _is_likely_header_footer is true exactly when the text is a bare
\* integer, starts with 'page', blanks and digits, with a copyright marker
\* or with 'www.' or 'http', or contains '@' anywhere; 'Contact: a@b.org'
\* becomes neither a heading candidate nor a member of the title pool.
C20_HeaderFooterAtSignAnywhere ==
    /\ fn_pc = "header_footer" =>
          (fn_result <=> HeaderFooterAsSpecified(fn_block.text, TRUE))
    /\ (fn_pc = "extracted" /\ fn_block.text = T_contact) => fn_headings = <<>>
    /\ (fn_pc = "header_footer" /\ fn_block.text = T_contact) =>
          ~IsTitleCandidate(fn_block, fn_stats)

\* what the code does instead: the at sign counts in front of the text only
HeaderFooterAtSignInFront ==
    fn_pc = "header_footer" =>
        (fn_result <=> HeaderFooterAsSpecified(fn_block.text, FALSE))

(***************************************************************************)
(* C21: _has_numbering and the level of a numbered candidate               *)
(***************************************************************************)
\* 'Introduction'
T_introduction == SubSeq(T_intro, 4, Len(T_intro))

\* '1.1 X'
T_two_level_x == <<"1", ".", "1", " ", "X">>

\* '1.1.1 X'
T_three_level_x == <<"1", ".", "1", ".", "1", " ", "X">>

\* '12.\tY': two digits, the full stop, a tab
T_twelve == <<"1", "2", ".", "\t", "Y">>

\* '1 X': no full stop
T_one_x == <<"1", " ", "X">>

\* the depth-1 numeric prefix read off the characters: the leading digits,
\* at least one, then a blank, or a full stop and a blank
DepthOnePrefix(t) ==
    LET n == RunLength(Digit, t, 1)
    IN  /\ n >= 1
        /\ \/ Len(t) >= n + 1 /\ t[n + 1] \in Whitespace
           \/ Len(t) >= n + 2 /\ t[n + 1] = "." /\ t[n + 2] \in Whitespace

\* _has_numbering on the examples and on every text of the model
HasNumberingOnTexts ==
    /\ _has_numbering(T_intro)
    /\ _has_numbering(T_twelve)
    /\ _has_numbering(T_one_x)
    /\ ~_has_numbering(T_introduction)
    /\ ~_has_numbering(T_two_level_x)
    /\ ~_has_numbering(T_three_level_x)
    /\ \A t \in KnownTexts \cup {T_twelve, T_one_x, T_introduction,
                                 T_two_level_x, T_three_level_x} :
          /\ _has_numbering(t) <=> DepthOnePrefix(t)
          /\ _has_numbering(t) => _matches_heading_pattern(t)

\* C21: _has_numbering(text) is true exactly for a text with the depth-1
\* numeric prefix (digits, optional full stop, whitespace): true for
\* '1. Introduction', false for 'Introduction', '1.1 X' and '1.1.1 X'; a
\* candidate whose has_numbering is true matches a heading pattern and is
\* classified H1, in the classified list and in the outline.
C21_HasNumberingDepthOne ==
    /\ HasNumberingOnTexts
    /\ HeadingsReturned =>
          \A i \in DOMAIN classified_headings :
              /\ classified_headings[i].has_numbering
                     <=> DepthOnePrefix(classified_headings[i].text)
              /\ classified_headings[i].has_numbering =>
                     /\ classified_headings[i].matches_pattern
                     /\ classified_headings[i].level = "H1"
                     /\ outline[i].level = "H1"

\* C21 witness: '1. Introduction' at the smallest of three candidate sizes
\* (font rank H3) has has_numbering set and is H1, beside '1.1 Background'
\* without has_numbering.
C21_Witness ==
    /\ HeadingsReturned
    /\ \E i, j \in DOMAIN classified_headings :
          /\ classified_headings[i].text = T_intro
          /\ classified_headings[i].has_numbering
          /\ FontRank(classified_headings[i].font_size) = 2
          /\ outline[i].level = "H1"
          /\ classified_headings[j].text = T_back
          /\ ~classified_headings[j].has_numbering

(***************************************************************************)
(* C22: the letter alternatives of the heading patterns                    *)
(***************************************************************************)
\* an all-caps run of length >= 3: an uppercase letter, then uppercase
\* letters and whitespace only
IsAllCapsRun(t) ==
    /\ Len(t) >= 3
    /\ t[1] \in Upper
    /\ \A i \in 2..Len(t) : t[i] \in Upper \cup Whitespace

\* one capital letter, an optional full stop, whitespace
StartsWithCapitalLabel(t) ==
    /\ Len(t) >= 2
    /\ t[1] \in Upper
    /\ \/ t[2] \in Whitespace
       \/ Len(t) >= 3 /\ t[2] = "." /\ t[3] \in Whitespace

\* lowercase letters and spaces only
LowercaseAndSpaces(t) ==
    Len(t) >= 1 /\ \A i \in 1..Len(t) : t[i] \in Lower \cup {" "}

\* a numeric, roman-numeral, parenthesized-letter or Chapter/Section/Part
\* prefix, in either case of its letters
HasListedPrefix(t) ==
    \E k \in {1, 2, 3, 5, 7, 8, 9, 10} : re_match(heading_patterns_ignorecase[k], t)

\* the score of the fragment if the pattern bonus is left out
WithoutPatternBonus(deltas) == SelectSeq(deltas, LAMBDA d : d # 25)

\* C22: the all-caps alternative fires only for an all-caps run of length
\* >= 3 and the capital-letter label alternative only for a text that starts
\* with one capital letter, an optional full stop and whitespace; a text of
\* lowercase letters and spaces without a numeric, roman-numeral,
\* parenthesized-letter or Chapter/Section/Part prefix matches no heading
\* pattern and its score holds no pattern bonus.
C22_LetterAlternativesCaseSensitive ==
    /\ fn_pc = "pattern" =>
          /\ re_match(heading_patterns_ignorecase[4], fn_block.text)
                 => IsAllCapsRun(fn_block.text)
          /\ re_match(heading_patterns_ignorecase[6], fn_block.text)
                 => StartsWithCapitalLabel(fn_block.text)
          /\ (LowercaseAndSpaces(fn_block.text) /\ ~HasListedPrefix(fn_block.text))
                 => fn_result = FALSE
    /\ (/\ fn_pc = "scored"
        /\ LowercaseAndSpaces(strip(fn_block.text))
        /\ ~HasListedPrefix(strip(fn_block.text))) =>
          fn_score = FMin(AddedUp(D_0_0,
                                  WithoutPatternBonus(
                                      FiredDeltas(strip(fn_block.text), fn_block,
                                                  AvgOf(fn_stats)))),
                          D_1_0)

(***************************************************************************)
(* C23: title case                                                         *)
(***************************************************************************)
\* the positions of t where a word begins: a character that is no
\* whitespace, first of the text or behind whitespace
WordBeginnings(t) ==
    {i \in 1..Len(t) : t[i] \notin Whitespace /\ (i = 1 \/ t[i - 1] \in Whitespace)}

\* the beginnings of the words that start with an uppercase letter and go on
CapitalisedBeginnings(t) ==
    {i \in WordBeginnings(t) :
        t[i] \in Upper /\ i < Len(t) /\ t[i + 1] \notin Whitespace}

\* at least two words, at least 60% of them capitalised and longer than 1
TitleCaseAsSpecified(t) ==
    /\ Cardinality(WordBeginnings(t)) >= 2
    /\ 100 * Cardinality(CapitalisedBeginnings(t)) >= 60 * Cardinality(WordBeginnings(t))

\* C23: _is_title_case(text) is false for a text with fewer than 2
\* whitespace-separated words; for a text with n >= 2 words it is true iff
\* the words that start with an uppercase letter and are longer than 1 are
\* at least 60% of n: 3 of 5 is true, 2 of 4 is false.
C23_TitleCaseSixtyPercent ==
    fn_pc = "title_case" =>
        /\ Cardinality(WordBeginnings(fn_block.text)) < 2 => fn_result = FALSE
        /\ fn_result <=> TitleCaseAsSpecified(fn_block.text)
        /\ fn_block.text = T_three_of_five => fn_result = TRUE
        /\ fn_block.text = T_two_of_four => fn_result = FALSE

\* C23 witness: the function has returned True for 'Aa Bb Cc d e', whose
\* capitalised words are exactly 60% of its five words
C23_Witness ==
    /\ fn_pc = "title_case"
    /\ fn_block.text = T_three_of_five
    /\ Cardinality(WordBeginnings(fn_block.text)) = 5
    /\ Cardinality(CapitalisedBeginnings(fn_block.text)) = 3
    /\ fn_result = TRUE

(***************************************************************************)
(* C24: the document statistics                                            *)
(***************************************************************************)
\* the fragments of the parsed document, each named by page and position
FragmentIndex ==
    UNION {{<<p, k>> : k \in DOMAIN pages_data[p].text_blocks} : p \in DOMAIN pages_data}

FontSizeAt(ix) == pages_data[ix[1]].text_blocks[ix[2]].font_size

RECURSIVE FontSizeSum(_)
FontSizeSum(fragments) ==
    IF fragments = {} THEN 0
    ELSE LET ix == CHOOSE f \in fragments : TRUE
         IN  FontSizeAt(ix) + FontSizeSum(fragments \ {ix})

\* the statistics with nothing but the average in them
AverageOnly(doc_stats) == [avg_font_size |-> doc_stats.avg_font_size]

\* _get_doc_stats has returned to a caller of its own
StatsReturned == pc = "done" /\ call = "_get_doc_stats"

\* C24: over all fragments of all pages, _get_doc_stats returns only
\* avg_font_size = 12 when there is no fragment; otherwise avg_font_size is
\* the arithmetic mean of the font sizes, max_font_size and min_font_size
\* the largest and the smallest, total_blocks the number of fragments, and
\* min_font_size <= avg_font_size <= max_font_size; the outline and the
\* title are those obtained from statistics that hold the average alone.
C24_DocStats ==
    /\ StatsReturned =>
          IF FragmentIndex = {}
          THEN returned_stats = [avg_font_size |-> [num |-> 12, den |-> 1]]
          ELSE /\ DOMAIN returned_stats =
                      {"avg_font_size", "max_font_size", "min_font_size", "total_blocks"}
               /\ returned_stats.avg_font_size.den > 0
               /\ returned_stats.avg_font_size.num * Cardinality(FragmentIndex)
                      = FontSizeSum(FragmentIndex) * returned_stats.avg_font_size.den
               /\ \E ix \in FragmentIndex : returned_stats.max_font_size = FontSizeAt(ix)
               /\ \A ix \in FragmentIndex : FontSizeAt(ix) <= returned_stats.max_font_size
               /\ \E ix \in FragmentIndex : returned_stats.min_font_size = FontSizeAt(ix)
               /\ \A ix \in FragmentIndex : returned_stats.min_font_size <= FontSizeAt(ix)
               /\ returned_stats.total_blocks = Cardinality(FragmentIndex)
               /\ returned_stats.min_font_size * returned_stats.avg_font_size.den
                      <= returned_stats.avg_font_size.num
               /\ returned_stats.avg_font_size.num
                      <= returned_stats.max_font_size * returned_stats.avg_font_size.den
    /\ (pc = "done" /\ call = "extract_headings" /\ pages_data # <<>>) =>
          outline = HeadingsRunWith(pages_data,
                                    AverageOnly(_get_doc_stats(pages_data))).final_headings
    /\ (/\ pc = "done" /\ call = "extract_title"
        /\ pages_data # <<>> /\ pages_data[1].text_blocks # <<>>) =>
          title = TitleFrom(TitleCandidates(pages_data[1].text_blocks,
                                            AverageOnly(_get_doc_stats(pages_data))))

\* C24 witness: the statistics of a document with fragments of different
\* sizes on two pages, the average strictly between the smallest and the
\* largest size
C24_Witness ==
    /\ StatsReturned
    /\ Len(pages_data) = 2
    /\ pages_data[1].text_blocks # <<>> /\ pages_data[2].text_blocks # <<>>
    /\ returned_stats.total_blocks = 3
    /\ returned_stats.min_font_size * returned_stats.avg_font_size.den
           < returned_stats.avg_font_size.num
    /\ returned_stats.avg_font_size.num
           < returned_stats.max_font_size * returned_stats.avg_font_size.den

(***************************************************************************)
(* C25: candidates and outline entries                                     *)
(***************************************************************************)
FragmentAt(ix) == pages_data[ix[1]].text_blocks[ix[2]]

\* the fragments of the document that _extract_page_headings admits
AdmittedFragments ==
    {ix \in FragmentIndex :
        IsPotentialHeading(FragmentAt(ix), _get_doc_stats(pages_data))}

\* those of the fragments in admitted with a given trimmed text on a given page
AdmittedWith(admitted, text, page) ==
    {ix \in admitted :
        /\ strip(FragmentAt(ix).text) = text
        /\ pages_data[ix[1]].page_number = page}

\* how often an entry occurs in a list
Occurrences(entry, list) == Cardinality({k \in DOMAIN list : list[k] = entry})

\* a classified heading as the candidate it was made of
AsCandidate(heading) == [f \in DOMAIN heading \ {"level"} |-> heading[f]]

\* the candidates, the classified list and the outline of the call against
\* the admitted fragments of the document
OneHeadingEach(admitted, candidates) ==
    /\ Len(potential_headings) = Cardinality(admitted)
    /\ \A k \in DOMAIN potential_headings :
          "level" \notin DOMAIN potential_headings[k]
    /\ Len(classified_headings) = Len(potential_headings)
    /\ \A k \in DOMAIN classified_headings :
          /\ classified_headings[k].level \in {"H1", "H2", "H3"}
          /\ Occurrences(candidates[k], candidates)
                 = Occurrences(candidates[k], potential_headings)
    /\ Len(outline) = Cardinality(admitted)
    /\ \A i \in DOMAIN outline :
          /\ outline[i].level = classified_headings[i].level
          /\ Cardinality({k \in DOMAIN outline :
                             /\ outline[k].text = outline[i].text
                             /\ outline[k].page = outline[i].page})
                 = Cardinality(AdmittedWith(admitted, outline[i].text, outline[i].page))
    /\ \A ix \in admitted :
          \E i \in DOMAIN outline :
              /\ outline[i].text = strip(FragmentAt(ix).text)
              /\ outline[i].page = pages_data[ix[1]].page_number

\* C25: classification neither drops nor duplicates candidates: a candidate
\* has no level before, every classified heading is one candidate with one
\* level, and the outline extract_headings returns has as many entries as
\* there are admitted fragments and is a permutation of them by text and
\* page.
C25_OutlineIsPermutationOfAdmitted ==
    (pc = "done" /\ call = "extract_headings") =>
        OneHeadingEach(AdmittedFragments,
                       [j \in DOMAIN classified_headings |->
                           AsCandidate(classified_headings[j])])

\* C25 witness: a document with a fragment that is not admitted and two
\* admitted fragments of the same text on one page: two outline entries,
\* equal in text and page.
C25_Witness ==
    /\ pc = "done" /\ call = "extract_headings"
    /\ Cardinality(FragmentIndex) = 3
    /\ Cardinality(AdmittedFragments) = 2
    /\ Len(outline) = 2
    /\ outline[1].text = outline[2].text
    /\ outline[1].page = outline[2].page

=============================================================================
